---------------------------- MODULE Spec2Model ----------------------------
(***************************************************************************)
(* Model of the tonal-tension chord suggestion engine (backend/jass):      *)
(* corpus ingestion and index building (chroma_index.py, tis_index.py),    *)
(* key parsing and feature extraction (tonal_tension/theory.py,            *)
(* features.py, hierarchy.py), weighting and ranking (model.py) and the    *)
(* query entry point (chord_suggestion.py).                                *)
(*                                                                         *)
(* Conventions.                                                            *)
(*  - Python strings are tuples of one-character strings, compared by      *)
(*    code point as Python compares them.                                  *)
(*  - Rows are numbered from 1 here; Python's row r is row r + 1.          *)
(*  - Floats are records [k, v]: k = "num" with v the value in fixed       *)
(*    point, k = "nan", or k = "inf" (+infinity).  Indicator values are    *)
(*    in units of 1/1000, weights in units of 1/1000, tensions in units    *)
(*    of 1/1000000.  Rounding of IEEE arithmetic is not modelled.          *)
(*  - The TIS vector of a chroma is a one-to-one function of the chroma    *)
(*    (the 6 weighted DFT bins, all weights non-zero, determine the        *)
(*    normalised 12-bin distribution), so a TIS vector is identified by    *)
(*    the chroma mask it was computed from.  Norms, distances and angles   *)
(*    of the TIS vectors of the chord universe are tabulated from the      *)
(*    formulas of tis_index.py and tis_metrics.py.                         *)
(***************************************************************************)
EXTENDS Integers, Sequences, FiniteSets, TLC

VARIABLES corpus, index, query, out, call, tree, det, ws

vars == <<corpus, index, query, out, call, tree, det, ws>>

(***************************************************************************)
(* Generic sequence helpers.                                               *)
(***************************************************************************)
Range(s) == {s[i] : i \in 1..Len(s)}

RECURSIVE SumSeq(_)
SumSeq(s) == IF s = <<>> THEN 0 ELSE s[1] + SumSeq(Tail(s))

RECURSIVE FlattenSeq(_)
FlattenSeq(ss) == IF ss = <<>> THEN <<>> ELSE ss[1] \o FlattenSeq(Tail(ss))

\* <<F(1), ..., F(n)>>, built element by element.
MapTo(n, F(_)) ==
    LET RECURSIVE Upto(_)
        Upto(k) == IF k = 0 THEN <<>> ELSE Append(Upto(k - 1), F(k))
    IN Upto(n)

\* s[1..n], as Python's s[:n] for n >= 0.
Take(s, n) == SubSeq(s, 1, IF n < Len(s) THEN n ELSE Len(s))

(***************************************************************************)
(* Characters and strings.                                                 *)
(***************************************************************************)
CharCode(c) ==
    CASE c = " " -> 32 [] c = "#" -> 35 [] c = "/" -> 47
      [] c = "1" -> 49 [] c = "3" -> 51 [] c = "6" -> 54 [] c = "7" -> 55
      [] c = "A" -> 65 [] c = "B" -> 66 [] c = "C" -> 67 [] c = "D" -> 68
      [] c = "E" -> 69 [] c = "F" -> 70 [] c = "G" -> 71 [] c = "H" -> 72
      [] c = "J" -> 74 [] c = "M" -> 77 [] c = "N" -> 78 [] c = "O" -> 79
      [] c = "R" -> 82 [] c = "X" -> 88
      [] c = "a" -> 97 [] c = "b" -> 98 [] c = "c" -> 99 [] c = "d" -> 100
      [] c = "e" -> 101 [] c = "f" -> 102 [] c = "g" -> 103 [] c = "i" -> 105
      [] c = "j" -> 106 [] c = "m" -> 109 [] c = "n" -> 110 [] c = "o" -> 111
      [] c = "r" -> 114

\* str.upper() on one character.
Upper(c) ==
    CASE c = "a" -> "A" [] c = "b" -> "B" [] c = "c" -> "C" [] c = "d" -> "D"
      [] c = "e" -> "E" [] c = "f" -> "F" [] c = "g" -> "G" [] c = "i" -> "I"
      [] c = "j" -> "J" [] c = "m" -> "M" [] c = "n" -> "N" [] c = "o" -> "O"
      [] c = "r" -> "R" [] OTHER -> c

\* str.lower() on one character.
Lower(c) ==
    CASE c = "A" -> "a" [] c = "B" -> "b" [] c = "C" -> "c" [] c = "D" -> "d"
      [] c = "E" -> "e" [] c = "F" -> "f" [] c = "G" -> "g" [] c = "H" -> "h"
      [] c = "J" -> "j" [] c = "M" -> "m" [] c = "N" -> "n" [] c = "O" -> "o"
      [] c = "R" -> "r" [] c = "X" -> "x" [] OTHER -> c

LowerStr(s) == [i \in 1..Len(s) |-> Lower(s[i])]

\* Python's s < t on strings: lexicographic by code point.
RECURSIVE StrLess(_, _)
StrLess(s, t) ==
    IF t = <<>> THEN FALSE
    ELSE IF s = <<>> THEN TRUE
    ELSE IF s[1] # t[1] THEN CharCode(s[1]) < CharCode(t[1])
    ELSE StrLess(Tail(s), Tail(t))

HasSlash(name) == \E i \in 1..Len(name) : name[i] = "/"

\* s.endswith(suffix)
EndsWith(s, suffix) ==
    /\ Len(s) >= Len(suffix)
    /\ SubSeq(s, Len(s) - Len(suffix) + 1, Len(s)) = suffix

(***************************************************************************)
(* chroma_index.py: chroma primitives.                                     *)
(***************************************************************************)
CHROMA_LEN == 12

RECURSIVE Pow2(_)
Pow2(n) == IF n = 0 THEN 1 ELSE 2 * Pow2(n - 1)

\* bits_to_mask raises ChromaInputError on these inputs.
BitsToMaskRaises(bits) ==
    \/ Len(bits) # CHROMA_LEN
    \/ \E i \in 1..Len(bits) : bits[i] \notin {0, 1}

\* bits_to_mask: bit i of the vector (0-based) goes to bit i of the mask.
RECURSIVE MaskFrom(_, _)
MaskFrom(bits, i) ==
    IF i > Len(bits) THEN 0
    ELSE (IF bits[i] = 1 THEN Pow2(i - 1) ELSE 0) + MaskFrom(bits, i + 1)

bits_to_mask(bits) == MaskFrom(bits, 1)

\* mask_to_bits raises for a mask outside [0, 4096).
MaskToBitsRaises(mask) == mask < 0 \/ mask >= Pow2(CHROMA_LEN)

mask_to_bits_msb_first(mask) == [i \in 1..CHROMA_LEN |-> (mask \div Pow2(CHROMA_LEN - i)) % 2]

\* mask_to_bits: [(mask >> i) & 1 for i in range(12)]
mask_to_bits(mask) == [i \in 1..CHROMA_LEN |-> (mask \div Pow2(i - 1)) % 2]

(***************************************************************************)
(* chroma_index.py: representative selection.                              *)
(***************************************************************************)
\* chord_root: "" when the name does not start with a letter A-G.
chord_root(name) ==
    IF name = <<>> THEN <<>>
    ELSE LET c0 == Upper(name[1]) IN
         IF CharCode(c0) < CharCode("A") \/ CharCode(c0) > CharCode("G")
         THEN <<>>
         ELSE IF Len(name) >= 2 /\ name[2] \in {"#", "b"}
              THEN <<c0, name[2]>>
              ELSE <<c0>>

\* Tuple order (len, name) of choose_shortest_no_slash and filter_slash_suggestions.
LenNameLess(a, b) ==
    \/ Len(a) < Len(b)
    \/ Len(a) = Len(b) /\ StrLess(a, b)

\* Tuple order of _name_pref_key: (has slash, len, name).
SlashRank(name) == IF HasSlash(name) THEN 1 ELSE 0

NamePrefLess(a, b) ==
    \/ SlashRank(a) < SlashRank(b)
    \/ SlashRank(a) = SlashRank(b) /\ LenNameLess(a, b)

\* min(pool, key=(len, name)) over a non-empty set of distinct names.
MinLenName(pool) == CHOOSE n \in pool : \A o \in pool : o = n \/ LenNameLess(n, o)

choose_first_no_slash(names) ==
    LET no_slash == SelectSeq(names, LAMBDA n : ~HasSlash(n))
    IN IF no_slash # <<>> THEN no_slash[1] ELSE MinLenName(Range(names))

choose_shortest_no_slash(names) ==
    LET no_slash == {n \in Range(names) : ~HasSlash(n)}
        pool == IF no_slash # {} THEN no_slash ELSE Range(names)
    IN MinLenName(pool)

choose_representative(chord_names) ==
    CHOOSE n \in Range(chord_names) :
        \A o \in Range(chord_names) : o = n \/ NamePrefLess(n, o)

\* sorted(set of distinct strings): ascending by code point.
RECURSIVE SortStrings(_)
SortStrings(S) ==
    IF S = {} THEN <<>>
    ELSE LET lo == CHOOSE n \in S : \A o \in S : o = n \/ StrLess(n, o)
         IN <<lo>> \o SortStrings(S \ {lo})

\* list.sort(key=_name_pref_key) over distinct names.
RECURSIVE SortByPref(_)
SortByPref(S) ==
    IF S = {} THEN <<>>
    ELSE LET lo == CHOOSE n \in S : \A o \in S : o = n \/ NamePrefLess(n, o)
         IN <<lo>> \o SortByPref(S \ {lo})

SelectSeq2(s, root) == SelectSeq(s, LAMBDA n : chord_root(n) = root)

choose_representatives_by_root(chord_names) ==
    LET roots == {chord_root(n) : n \in Range(chord_names)} \ {<<>>}
        reps == {choose_shortest_no_slash(SelectSeq2(chord_names, r)) : r \in roots}
    IN SortByPref(reps)

filter_slash_first(names) ==
    LET no_slash == SelectSeq(names, LAMBDA n : ~HasSlash(n))
    IN IF no_slash # <<>> THEN no_slash
       ELSE IF names = <<>> THEN <<>>
       ELSE <<names[1]>>

\* filter_slash_suggestions
filter_slash_suggestions(names) ==
    LET no_slash == SelectSeq(names, LAMBDA n : ~HasSlash(n))
    IN IF no_slash # <<>> THEN no_slash
       ELSE IF names = <<>> THEN <<>>
       ELSE <<MinLenName(Range(names))>>

(***************************************************************************)
(* tonal_tension/theory.py: keys, scales and function prototypes.          *)
(***************************************************************************)
PcNames ==
    {<<"C">>, <<"C", "#">>, <<"D", "b">>, <<"D">>, <<"D", "#">>, <<"E", "b">>,
     <<"E">>, <<"F", "b">>, <<"E", "#">>, <<"F">>, <<"F", "#">>, <<"G", "b">>,
     <<"G">>, <<"G", "#">>, <<"A", "b">>, <<"A">>, <<"A", "#">>, <<"B", "b">>,
     <<"B">>, <<"C", "b">>, <<"B", "#">>}

\* PC_TO_IDX[root], for root in PcNames.
PC_TO_IDX(root) ==
    LET base == CASE root[1] = "C" -> 0 [] root[1] = "D" -> 2 [] root[1] = "E" -> 4
                  [] root[1] = "F" -> 5 [] root[1] = "G" -> 7 [] root[1] = "A" -> 9
                  [] root[1] = "B" -> 11
        shift == IF Len(root) = 1 THEN 0 ELSE IF root[2] = "#" THEN 1 ELSE 11
    IN (base + shift) % 12

MAJOR_INTERVALS == {0, 2, 4, 5, 7, 9, 11}
MINOR_INTERVALS == {0, 2, 3, 5, 7, 8, 10}

MAJOR_TRIAD_MAP(deg) ==
    CASE deg \in {0, 5, 7} -> "major" [] deg \in {2, 4, 9} -> "minor"
      [] deg = 11 -> "diminished"

MINOR_TRIAD_MAP(deg) ==
    CASE deg \in {0, 5, 7} -> "minor" [] deg \in {3, 8, 10} -> "major"
      [] deg = 2 -> "diminished"

\* The 12-vector with exactly the pitch classes of pcs set.
BitsOfPcs(pcs) == [i \in 1..CHROMA_LEN |-> IF (i - 1) \in pcs THEN 1 ELSE 0]

triad_chroma(root_pc, quality) ==
    LET intervals == CASE quality = "major" -> {0, 4, 7}
                       [] quality = "minor" -> {0, 3, 7}
                       [] quality = "diminished" -> {0, 3, 6}
                       [] quality = "augmented" -> {0, 4, 8}
    IN BitsOfPcs({(root_pc + iv) % 12 : iv \in intervals})

\* str.strip() and str.split() for the whitespace character " ".
RECURSIVE LStrip(_)
LStrip(s) == IF s # <<>> /\ s[1] = " " THEN LStrip(Tail(s)) ELSE s

RECURSIVE RStrip(_)
RStrip(s) ==
    IF s # <<>> /\ s[Len(s)] = " " THEN RStrip(SubSeq(s, 1, Len(s) - 1)) ELSE s

Strip(s) == RStrip(LStrip(s))

RECURSIVE SplitFrom(_, _, _)
SplitFrom(s, i, cur) ==
    LET flush == IF cur = <<>> THEN <<>> ELSE <<cur>> IN
    IF i > Len(s) THEN flush
    ELSE IF s[i] = " " THEN flush \o SplitFrom(s, i + 1, <<>>)
    ELSE SplitFrom(s, i + 1, Append(cur, s[i]))

Split(s) == SplitFrom(s, 1, <<>>)

KeyError == [ok |-> FALSE, root |-> <<>>, mode |-> "none"]
KeyOk(root, mode) == [ok |-> TRUE, root |-> root, mode |-> mode]

\* parse_key: ok = FALSE is the ValueError "Cannot parse key".
parse_key(key_str) ==
    LET s == Strip(key_str)
        parts == Split(s)
        mode_str == IF Len(parts) = 2 THEN LowerStr(parts[2]) ELSE <<>>
        low == LowerStr(s)
        cut3 == SubSeq(s, 1, Len(s) - 3)
        cut1 == SubSeq(s, 1, Len(s) - 1)
    IN IF Len(parts) = 2 /\ mode_str \in {<<"m","a","j","o","r">>, <<"m","a","j">>}
         THEN KeyOk(parts[1], "major")
       ELSE IF Len(parts) = 2 /\ mode_str \in {<<"m","i","n","o","r">>, <<"m","i","n">>}
         THEN KeyOk(parts[1], "minor")
       ELSE IF EndsWith(low, <<"m","i","n">>) /\ cut3 \in PcNames
         THEN KeyOk(cut3, "minor")
       ELSE IF EndsWith(low, <<"m","a","j">>) /\ cut3 \in PcNames
         THEN KeyOk(cut3, "major")
       ELSE IF EndsWith(s, <<"m">>) /\ Len(s) >= 2 /\ cut1 \in PcNames
         THEN KeyOk(cut1, "minor")
       ELSE IF s \in PcNames
         THEN KeyOk(s, "major")
       ELSE KeyError

\* key_chroma and function_prototypes index PC_TO_IDX with the root: KeyError
\* for a root that is no pitch-class name.
KeyLookupRaises(root) == root \notin PcNames

key_chroma(root, mode) ==
    LET intervals == IF mode = "major" THEN MAJOR_INTERVALS ELSE MINOR_INTERVALS
    IN BitsOfPcs({(PC_TO_IDX(root) + iv) % 12 : iv \in intervals})

\* key_tis: the TIS of the key's scale chroma, identified by its mask.
key_tis(root, mode) == bits_to_mask(key_chroma(root, mode))

\* function_prototypes: the ordered dict tonic, subdominant, dominant of
\* triad TIS vectors, each identified by its mask.
function_prototypes(root, mode) ==
    LET proto(name, deg) ==
            LET quality == IF mode = "major" THEN MAJOR_TRIAD_MAP(deg)
                           ELSE MINOR_TRIAD_MAP(deg)
            IN [name |-> name,
                tis |-> bits_to_mask(triad_chroma((PC_TO_IDX(root) + deg) % 12, quality))]
    IN <<proto("tonic", 0), proto("subdominant", 5), proto("dominant", 7)>>

(***************************************************************************)
(* Tabulated values, in units of 1/1000, of the TIS formulas over the      *)
(* chord universe C (145), F (545), Am7 = C6 (657), G7 (2212) and          *)
(* Cmaj13 (2741), against the scale chromas of C major = A minor (2741)    *)
(* and G major (2773) and their prototype triads.                          *)
(*   TisNormTable(a)        = ||T_a||                (tis_index.py)        *)
(*   TisDistanceTable(a, b) = ||T_a - T_b||, a < b   (euclidean_distance)  *)
(*   TisAngleTable(a, b)    = arccos(|<T_a,T_b>| / (||T_a|| ||T_b||))      *)
(*   OffsetAngleTable(a, p, k) = the same angle between T_a - T_k and      *)
(*                            T_p - T_k, for a # k                         *)
(*   VoiceLeadingTable(a, b) = voice_leading_tension(bits a, bits b) with  *)
(*                            addition_penalty = 4                         *)
(***************************************************************************)
TisNormTable(mask) ==
    CASE mask = 145 -> 20362
      [] mask = 545 -> 20362
      [] mask = 657 -> 17458
      [] mask = 1060 -> 20362
      [] mask = 2212 -> 15881
      [] mask = 2741 -> 10826
      [] mask = 4095 -> 0

TisDistanceTable(a, b) ==
    CASE a = 145 /\ b = 545 -> 25552
      [] a = 145 /\ b = 657 -> 9594
      [] a = 145 /\ b = 2212 -> 24787
      [] a = 145 /\ b = 2741 -> 16516
      [] a = 545 /\ b = 657 -> 19958
      [] a = 545 /\ b = 2212 -> 25585
      [] a = 545 /\ b = 2741 -> 17688
      [] a = 657 /\ b = 2212 -> 23648
      [] a = 657 /\ b = 2741 -> 12427
      [] a = 2212 /\ b = 2741 -> 12387

TisAngleTable(a, b) ==
    CASE a = 145 /\ b = 145 -> 0
      [] a = 145 /\ b = 529 -> 864
      [] a = 145 /\ b = 545 -> 1138
      [] a = 145 /\ b = 548 -> 1259
      [] a = 145 /\ b = 580 -> 978
      [] a = 145 /\ b = 2180 -> 1138
      [] a = 145 /\ b = 2192 -> 774
      [] a = 145 /\ b = 2741 -> 939
      [] a = 145 /\ b = 2773 -> 655
      [] a = 545 /\ b = 145 -> 1138
      [] a = 545 /\ b = 529 -> 774
      [] a = 545 /\ b = 545 -> 0
      [] a = 545 /\ b = 548 -> 864
      [] a = 545 /\ b = 580 -> 1408
      [] a = 545 /\ b = 2180 -> 978
      [] a = 545 /\ b = 2192 -> 680
      [] a = 545 /\ b = 2741 -> 655
      [] a = 545 /\ b = 2773 -> 994
      [] a = 657 /\ b = 145 -> 481
      [] a = 657 /\ b = 529 -> 481
      [] a = 657 /\ b = 545 -> 940
      [] a = 657 /\ b = 548 -> 1261
      [] a = 657 /\ b = 580 -> 1169
      [] a = 657 /\ b = 2180 -> 1261
      [] a = 657 /\ b = 2192 -> 940
      [] a = 657 /\ b = 2741 -> 784
      [] a = 657 /\ b = 2773 -> 562
      [] a = 2212 /\ b = 145 -> 1490
      [] a = 2212 /\ b = 529 -> 1298
      [] a = 2212 /\ b = 545 -> 1204
      [] a = 2212 /\ b = 548 -> 1087
      [] a = 2212 /\ b = 580 -> 1331
      [] a = 2212 /\ b = 2180 -> 513
      [] a = 2212 /\ b = 2192 -> 989
      [] a = 2212 /\ b = 2741 -> 889
      [] a = 2212 /\ b = 2773 -> 1147
      [] a = 2741 /\ b = 145 -> 939
      [] a = 2741 /\ b = 529 -> 939
      [] a = 2741 /\ b = 545 -> 655
      [] a = 2741 /\ b = 548 -> 884
      [] a = 2741 /\ b = 580 -> 1228
      [] a = 2741 /\ b = 2180 -> 884
      [] a = 2741 /\ b = 2192 -> 655
      [] a = 2741 /\ b = 2741 -> 0
      [] a = 2741 /\ b = 2773 -> 546

OffsetAngleTable(a, p, k) ==
    CASE a = 145 /\ p = 145 /\ k = 2741 -> 0
      [] a = 145 /\ p = 145 /\ k = 2773 -> 0
      [] a = 145 /\ p = 529 /\ k = 2741 -> 1092
      [] a = 145 /\ p = 545 /\ k = 2741 -> 1424
      [] a = 145 /\ p = 548 /\ k = 2741 -> 641
      [] a = 145 /\ p = 580 /\ k = 2773 -> 603
      [] a = 145 /\ p = 2180 /\ k = 2741 -> 1255
      [] a = 145 /\ p = 2180 /\ k = 2773 -> 1424
      [] a = 145 /\ p = 2192 /\ k = 2741 -> 1123
      [] a = 545 /\ p = 145 /\ k = 2741 -> 1424
      [] a = 545 /\ p = 145 /\ k = 2773 -> 1081
      [] a = 545 /\ p = 529 /\ k = 2741 -> 1123
      [] a = 545 /\ p = 545 /\ k = 2741 -> 0
      [] a = 545 /\ p = 548 /\ k = 2741 -> 1019
      [] a = 545 /\ p = 580 /\ k = 2773 -> 1011
      [] a = 545 /\ p = 2180 /\ k = 2741 -> 603
      [] a = 545 /\ p = 2180 /\ k = 2773 -> 1032
      [] a = 545 /\ p = 2192 /\ k = 2741 -> 563
      [] a = 657 /\ p = 145 /\ k = 2741 -> 608
      [] a = 657 /\ p = 145 /\ k = 2773 -> 563
      [] a = 657 /\ p = 529 /\ k = 2741 -> 608
      [] a = 657 /\ p = 545 /\ k = 2741 -> 1413
      [] a = 657 /\ p = 548 /\ k = 2741 -> 1045
      [] a = 657 /\ p = 580 /\ k = 2773 -> 1019
      [] a = 657 /\ p = 2180 /\ k = 2741 -> 1045
      [] a = 657 /\ p = 2180 /\ k = 2773 -> 1123
      [] a = 657 /\ p = 2192 /\ k = 2741 -> 1413
      [] a = 2212 /\ p = 145 /\ k = 2741 -> 1092
      [] a = 2212 /\ p = 145 /\ k = 2773 -> 1202
      [] a = 2212 /\ p = 529 /\ k = 2741 -> 0
      [] a = 2212 /\ p = 545 /\ k = 2741 -> 1123
      [] a = 2212 /\ p = 548 /\ k = 2741 -> 1255
      [] a = 2212 /\ p = 580 /\ k = 2773 -> 1394
      [] a = 2212 /\ p = 2180 /\ k = 2741 -> 641
      [] a = 2212 /\ p = 2180 /\ k = 2773 -> 653
      [] a = 2212 /\ p = 2192 /\ k = 2741 -> 1424
      [] a = 2741 /\ p = 145 /\ k = 2773 -> 875
      [] a = 2741 /\ p = 580 /\ k = 2773 -> 966
      [] a = 2741 /\ p = 2180 /\ k = 2773 -> 1281

VoiceLeadingTable(a, b) ==
    CASE a = 145 /\ b = 545 -> -1070
      [] a = 145 /\ b = 657 -> -3001
      [] a = 145 /\ b = 2212 -> -1130
      [] a = 145 /\ b = 2741 -> -3006
      [] a = 545 /\ b = 145 -> -1070
      [] a = 545 /\ b = 657 -> -2066
      [] a = 545 /\ b = 2212 -> -1072
      [] a = 545 /\ b = 2741 -> -3006
      [] a = 657 /\ b = 145 -> -3001
      [] a = 657 /\ b = 545 -> -2066
      [] a = 657 /\ b = 2212 -> -1076
      [] a = 657 /\ b = 2741 -> -4004
      [] a = 2212 /\ b = 145 -> -1130
      [] a = 2212 /\ b = 545 -> -1072
      [] a = 2212 /\ b = 657 -> -1076
      [] a = 2212 /\ b = 2741 -> -4004
      [] a = 2741 /\ b = 145 -> -3006
      [] a = 2741 /\ b = 545 -> -3006
      [] a = 2741 /\ b = 657 -> -4004
      [] a = 2741 /\ b = 2212 -> -4004

(***************************************************************************)
(* Floats.                                                                 *)
(***************************************************************************)
Num(v) == [k |-> "num", v |-> v]
NaN == [k |-> "nan", v |-> 0]
Inf == [k |-> "inf", v |-> 0]

IsNaN(x) == x.k = "nan"
IsNum(x) == x.k = "num"

\* x + y, x - y, x * y and abs(x) for x, y numbers, nan or +inf (no -inf
\* arises: inf enters only as a goal target and leaves through abs).
FAdd(x, y) ==
    IF IsNaN(x) \/ IsNaN(y) THEN NaN
    ELSE IF x.k = "inf" \/ y.k = "inf" THEN Inf
    ELSE Num(x.v + y.v)

\* abs(x - y)
FAbsDiff(x, y) ==
    IF IsNaN(x) \/ IsNaN(y) THEN NaN
    ELSE IF x.k = "inf" /\ y.k = "inf" THEN NaN
    ELSE IF x.k = "inf" \/ y.k = "inf" THEN Inf
    ELSE Num(IF x.v >= y.v THEN x.v - y.v ELSE y.v - x.v)

\* float(w) * x for a finite weight w: 0 * nan is nan.
FScale(w, x) == IF IsNum(x) THEN Num(w * x.v) ELSE IF IsNaN(x) THEN NaN
                ELSE IF w = 0 THEN NaN ELSE Inf

FNeg(x) == IF IsNum(x) THEN Num(0 - x.v) ELSE x

\* x < y on floats without nan (comparisons with nan are false).
FLess(x, y) ==
    /\ ~IsNaN(x) /\ ~IsNaN(y)
    /\ \/ IsNum(x) /\ y.k = "inf"
       \/ IsNum(x) /\ IsNum(y) /\ x.v < y.v

\* np.minimum(x, y): nan if either is nan.
FMinimum(x, y) ==
    IF IsNaN(x) \/ IsNaN(y) THEN NaN ELSE IF FLess(y, x) THEN y ELSE x

(***************************************************************************)
(* tis_index.py: TIS quantities and the index.                             *)
(***************************************************************************)
\* ||T|| of the chroma with this mask.
tis_norm_of(mask) == TisNormTable(mask)

\* euclidean_distance(T_a, T_b)
euclidean_distance(a, b) ==
    IF a = b THEN 0
    ELSE IF a < b THEN TisDistanceTable(a, b) ELSE TisDistanceTable(b, a)

\* angle(T_a, T_b); both norms are positive over the chord universe.
angle(a, b) == TisAngleTable(a, b)

\* sorted(..., reverse=True): descending order.
RECURSIVE SortIntsDescending(_)
SortIntsDescending(S) ==
    IF S = {} THEN <<>>
    ELSE LET hi == CHOOSE n \in S : \A o \in S : n >= o
         IN <<hi>> \o SortIntsDescending(S \ {hi})

RECURSIVE SortInts(_)
SortInts(S) ==
    IF S = {} THEN <<>>
    ELSE LET lo == CHOOSE n \in S : \A o \in S : n <= o
         IN <<lo>> \o SortInts(S \ {lo})

\* Offsets [0, len(l1), len(l1) + len(l2), ...] of a list of lists.
RECURSIVE Offsets(_, _)
Offsets(ss, acc) ==
    IF ss = <<>> THEN <<acc>>
    ELSE <<acc>> \o Offsets(Tail(ss), acc + Len(ss[1]))

NoIndex ==
    [status |-> "none", error |-> "", error_names |-> <<>>,
     rep_names |-> <<>>, chroma_bits |-> <<>>,
     chroma_mask |-> <<>>, tis |-> <<>>, tis_norm |-> <<>>,
     rep_offsets |-> <<>>, rep_names_by_root |-> <<>>,
     alias_offsets |-> <<>>, alias_names |-> <<>>, num_chords |-> 0]

\* np.array(names, dtype="<U64"): a name longer than 64 characters is cut to
\* its first 64 characters, silently.
NAME_WIDTH == 64

AsU64(name) == Take(name, NAME_WIDTH)

AsU64List(names) == MapTo(Len(names), LAMBDA j : AsU64(names[j]))

\* A ChromaInputError that ends the build: the format string of its message
\* and the chord names that the message interpolates.
BuildError(message, names) ==
    [NoIndex EXCEPT !.status = "error", !.error = message, !.error_names = names]

\* The message of bits_to_mask, which is given the bits and not the name.
BitsToMaskMessage(bits) ==
    IF Len(bits) # CHROMA_LEN
    THEN "Expected {CHROMA_LEN} bits, got {len(bits)}."
    ELSE "Bits must be 0/1; got {bit!r} at index {i}."

\* The first item of the mapping on which bits_to_mask raises.
FirstRaising(corp) ==
    CHOOSE i \in 1..Len(corp) :
        /\ BitsToMaskRaises(corp[i].bits)
        /\ \A j \in 1..(i - 1) : ~BitsToMaskRaises(corp[j].bits)

\* chords_to_bits[name] of the corpus (a dict kept as its item list).
BitsOfName(corp, name) ==
    LET i == CHOOSE i \in 1..Len(corp) : corp[i].name = name IN corp[i].bits

\* build_tis_index.  tis holds, per row, the mask identifying the row's TIS
\* vector (tis_unit is tis / tis_norm and is identified by the same mask).
build_tis_index(corp) ==
    IF \E i \in 1..Len(corp) : BitsToMaskRaises(corp[i].bits)
    THEN BuildError(BitsToMaskMessage(corp[FirstRaising(corp)].bits), <<>>)
    ELSE
    LET maskOf(i) == bits_to_mask(corp[i].bits)
        mask_to_aliases(m) ==
            LET pick(e) == bits_to_mask(e.bits) = m
                items == SelectSeq(corp, pick)
            IN [j \in 1..Len(items) |-> items[j].name]
        masks == SortInts({maskOf(i) : i \in 1..Len(corp)})
        M == Len(masks)
        aliases(r) == SortStrings(Range(mask_to_aliases(masks[r])))
        reps_by_root(r) == choose_representatives_by_root(aliases(r))
        rep(r) == IF reps_by_root(r) # <<>>
                  THEN choose_representative(reps_by_root(r))
                  ELSE choose_representative(aliases(r))
        rep_names_list == MapTo(M, LAMBDA r : rep(r))
        rep_bits_list == MapTo(M, LAMBDA r : BitsOfName(corp, rep_names_list[r]))
        reps_lists == MapTo(M, LAMBDA r :
                         IF reps_by_root(r) # <<>> THEN reps_by_root(r)
                         ELSE <<rep_names_list[r]>>)
        alias_lists == MapTo(M, LAMBDA r : aliases(r))
    IN IF M = 0
       THEN BuildError("Expected shape (N,{CHROMA_LEN}); got {chroma_bits.shape}.", <<>>)
       ELSE IF \E r \in 1..M : SumSeq(rep_bits_list[r]) = 0
       THEN BuildError("chroma vector must have at least one active pitch class.", <<>>)
       ELSE [status |-> "ok", error |-> "", error_names |-> <<>>,
             rep_names |-> AsU64List(rep_names_list),
             chroma_bits |-> rep_bits_list,
             chroma_mask |-> masks,
             tis |-> masks,
             tis_norm |-> MapTo(M, LAMBDA r : tis_norm_of(masks[r])),
             rep_offsets |-> Offsets(reps_lists, 0),
             rep_names_by_root |-> AsU64List(FlattenSeq(reps_lists)),
             alias_offsets |-> Offsets(alias_lists, 0),
             alias_names |-> AsU64List(FlattenSeq(alias_lists)),
             num_chords |-> Len(corp)]

NumRows(idx) == Len(idx.rep_names)

\* TISIndex.reps_for_row and aliases_for_row (row numbered from 1).
reps_for_row(idx, row) ==
    SubSeq(idx.rep_names_by_root, idx.rep_offsets[row] + 1, idx.rep_offsets[row + 1])

aliases_for_row(idx, row) ==
    SubSeq(idx.alias_names, idx.alias_offsets[row] + 1, idx.alias_offsets[row + 1])

\* TISIndex.build_name_to_row: a later row overwrites an earlier one.
NamesInIndex(idx) == Range(idx.alias_names)

build_name_to_row(idx, name) ==
    CHOOSE r \in 1..NumRows(idx) :
        /\ name \in Range(aliases_for_row(idx, r))
        /\ \A q \in 1..NumRows(idx) :
              name \in Range(aliases_for_row(idx, q)) => q <= r

(***************************************************************************)
(* Optional values, queries and outcomes.                                  *)
(***************************************************************************)
None == [some |-> FALSE, val |-> <<>>]
Some(x) == [some |-> TRUE, val |-> x]

NoQuery ==
    [chord |-> None, progression |-> None, key |-> <<>>, top |-> 0,
     goal |-> "", weights |-> None, normalize |-> TRUE]

NoOut ==
    [status |-> "none", error |-> "", prev_row |-> 0, feats |-> <<>>,
     tension |-> <<>>, order |-> <<>>, results |-> <<>>]

\* A call of one of the helper functions on its own: the function, its
\* argument, and what it returned or raised.
NoCall == [fn |-> "none", arg |-> <<>>, ret |-> <<>>]
Returned(v) == [raised |-> FALSE, val |-> v]
Raised(e) == [raised |-> TRUE, val |-> e]

\* No run of hierarchical_tension_last, no MIDI detector and no WebSocket
\* server: the parts of the system that a specification leaves out.
NoTree == [pc |-> "idle"]
NoDetector == [pc |-> "off"]
NoServer == [pc |-> "off"]

(***************************************************************************)
(* tis_metrics.py and tonal_tension/dissonance.py.                         *)
(***************************************************************************)
\* One entry of vectorized_angles(vectors, ref): nan unless
\* ||vector|| * ||ref|| > 0, else the angle (given in units of 1/1000).
vectorized_angle(denom_positive, ang) == IF denom_positive THEN Num(ang) ELSE NaN

\* dissonance_tension_from_tis_norm: -||T||
dissonance_tension_from_tis_norm(norm) == Num(0 - norm)

\* voice_leading_tension(bits_a, bits_b, addition_penalty=4), by the masks.
voice_leading_tension(a, b) == Num(VoiceLeadingTable(a, b))

(***************************************************************************)
(* tonal_tension/hierarchy.py.                                             *)
(***************************************************************************)
\* harmonic_function_label_from_tis: the first prototype of minimum angle.
harmonic_function_label_from_tis(tis, protos) ==
    LET a(j) == angle(tis, protos[j].tis)
        best == CHOOSE j \in 1..Len(protos) :
                   /\ \A q \in 1..Len(protos) : a(j) <= a(q)
                   /\ \A q \in 1..(j - 1) : a(q) > a(j)
    IN CASE protos[best].name = "tonic" -> "t"
         [] protos[best].name = "subdominant" -> "s"
         [] protos[best].name = "dominant" -> "d"

RegionOf(f) == CASE f = "t" -> "TR" [] f = "s" -> "SR" [] f = "d" -> "DR"

PrioOf(f) == CASE f = "t" -> 0 [] f = "s" -> 1 [] f = "d" -> 2

stable_head_by_label_only(a, b, func_labels, key_distances) ==
    IF PrioOf(func_labels[a]) <= PrioOf(func_labels[b]) THEN a ELSE b

\* stable_head(a, b): a if (prio, d2) of a <= that of b, else b.
stable_head(a, b, func_labels, key_distances) ==
    LET pa == PrioOf(func_labels[a])
        pb == PrioOf(func_labels[b])
        da == key_distances[a]
        db == key_distances[b]
        leq == \/ pa < pb
               \/ pa = pb /\ ~IsNaN(da) /\ ~IsNaN(db) /\ ~FLess(db, da)
    IN IF leq THEN a ELSE b

LastPair(nodes, ka, kb) ==
    LET hits == {i \in 1..(Len(nodes) - 1) :
                    nodes[i].kind = ka /\ nodes[i + 1].kind = kb}
    IN IF hits = {} THEN 0 ELSE CHOOSE i \in hits : \A j \in hits : i >= j

\* The first position i with nodes[i], nodes[i+1] of kinds ka, kb; 0 if none.
FirstPair(nodes, ka, kb) ==
    LET hits == {i \in 1..(Len(nodes) - 1) :
                    nodes[i].kind = ka /\ nodes[i + 1].kind = kb}
    IN IF hits = {} THEN 0 ELSE CHOOSE i \in hits : \A j \in hits : i <= j

\* merge(i, kind, head_pos): nodes[i : i + 2] = [new].  st.chain holds the
\* head_pos of the ancestors of the last leaf, nearest first: the new node
\* is the parent of the node that holds the last leaf when i + 1 is the last
\* position.
merge_left_span(st, i, kind, head_pos) ==
    LET nodes == st.nodes
        new == [kind |-> kind, start |-> nodes[i].start,
                end |-> nodes[i].end, head_pos |-> head_pos]
    IN [nodes |-> SubSeq(nodes, 1, i - 1) \o <<new>> \o SubSeq(nodes, i + 2, Len(nodes)),
        chain |-> IF i + 1 = Len(nodes) THEN Append(st.chain, head_pos) ELSE st.chain]

\* merge(i, kind, head_pos): nodes[i], nodes[i+1] are replaced by their parent.
merge(st, i, kind, head_pos) ==
    LET nodes == st.nodes
        new == [kind |-> kind, start |-> nodes[i].start,
                end |-> nodes[i + 1].end, head_pos |-> head_pos]
    IN [nodes |-> SubSeq(nodes, 1, i - 1) \o <<new>> \o SubSeq(nodes, i + 2, Len(nodes)),
        chain |-> IF i + 1 = Len(nodes) THEN Append(st.chain, head_pos) ELSE st.chain]

\* The rule loop with the head of rule 3 (TR DR -> TR) taken from the right
\* child, as rules 1 and 2 take it.
RECURSIVE RuleLoopRightHead(_)
RuleLoopRightHead(st) ==
    IF Len(st.nodes) <= 1 THEN st
    ELSE LET r1 == FirstPair(st.nodes, "SR", "DR")
             r2 == FirstPair(st.nodes, "DR", "TR")
             r3 == FirstPair(st.nodes, "TR", "DR")
         IN IF r1 # 0 THEN RuleLoopRightHead(merge(st, r1, "DR", st.nodes[r1 + 1].head_pos))
            ELSE IF r2 # 0 THEN RuleLoopRightHead(merge(st, r2, "TR", st.nodes[r2 + 1].head_pos))
            ELSE IF r3 # 0 THEN RuleLoopRightHead(merge(st, r3, "TR", st.nodes[r3 + 1].head_pos))
            ELSE st

\* The rule loop: the first rule with a match fires at its leftmost match.
RECURSIVE RuleLoop(_)
RuleLoop(st) ==
    IF Len(st.nodes) <= 1 THEN st
    ELSE LET r1 == FirstPair(st.nodes, "SR", "DR")
             r2 == FirstPair(st.nodes, "DR", "TR")
             r3 == FirstPair(st.nodes, "TR", "DR")
         IN IF r1 # 0 THEN RuleLoop(merge(st, r1, "DR", st.nodes[r1 + 1].head_pos))
            ELSE IF r2 # 0 THEN RuleLoop(merge(st, r2, "TR", st.nodes[r2 + 1].head_pos))
            ELSE IF r3 # 0 THEN RuleLoop(merge(st, r3, "TR", st.nodes[r3].head_pos))
            ELSE st

\* The fallback loop: nodes[0:2] become a ROOT node until one node is left.
RECURSIVE RootLoop(_, _, _)
RootLoop(st, func_labels, key_distances) ==
    IF Len(st.nodes) <= 1 THEN st
    ELSE LET head == stable_head(st.nodes[1].head_pos, st.nodes[2].head_pos,
                                 func_labels, key_distances)
         IN RootLoop(merge(st, 1, "ROOT", head), func_labels, key_distances)

BuildTree(func_labels, key_distances) ==
    LET leaves == MapTo(Len(func_labels), LAMBDA i :
                     [kind |-> RegionOf(func_labels[i]), start |-> i,
                      end |-> i + 1, head_pos |-> i])
    IN RootLoop(RuleLoop([nodes |-> leaves, chain |-> <<>>]),
                func_labels, key_distances)

\* parent_heads: the heads on the path from the last leaf to the root that
\* differ from the last leaf, consecutive repetitions dropped.
RECURSIVE ParentHeads(_, _, _)
ParentHeads(chain, n, acc) ==
    IF chain = <<>> THEN acc
    ELSE LET hp == chain[1]
             keep == hp # n /\ (acc = <<>> \/ acc[Len(acc)] # hp)
         IN ParentHeads(Tail(chain), n, IF keep THEN Append(acc, hp) ELSE acc)

\* hierarchical_tension_last: tis_list holds the masks identifying the TIS
\* vectors; the result is in units of 1/1000.
hierarchical_tension_last(tis_list, func_labels, key_distances) ==
    LET n == Len(tis_list) IN
    IF n <= 1 THEN Num(0)
    ELSE LET parent_heads == ParentHeads(BuildTree(func_labels, key_distances).chain, n, <<>>)
             dists == MapTo(Len(parent_heads), LAMBDA j :
                         euclidean_distance(tis_list[n], tis_list[parent_heads[j]]))
         IN IF parent_heads = <<>> THEN Num(0)
            ELSE Num(SumSeq(dists) \div Len(parent_heads))

(***************************************************************************)
(* tonal_tension/features.py.                                              *)
(***************************************************************************)
\* d3 of one row: np.minimum over the prototypes, starting from inf, of
\* vectorized_angles(offset_unit, proto - k_tis).  offset_unit is the zero
\* vector in a row whose offset norm is not > 0, that is whose TIS is the
\* key's TIS.
RECURSIVE D3Fold(_, _, _, _)
D3Fold(acc, tis, k_tis, protos) ==
    IF protos = <<>> THEN acc
    ELSE LET good == tis # k_tis
             ang == IF good THEN OffsetAngleTable(tis, protos[1].tis, k_tis) ELSE 0
         IN D3Fold(FMinimum(acc, vectorized_angle(good, ang)), tis, k_tis, Tail(protos))

\* compute_features: progression_rows is None or Some(rows).
compute_features(idx, prev_row, key_root, key_mode, progression_rows) ==
    LET n == NumRows(idx)
        prev_tis == idx.tis[prev_row]
        k_tis == key_tis(key_root, key_mode)
        protos == function_prototypes(key_root, key_mode)
        d2 == MapTo(n, LAMBDA i : vectorized_angle(idx.tis_norm[i] > 0,
                                                   angle(idx.tis[i], k_tis)))
        hasProg == progression_rows.some /\ progression_rows.val # <<>>
        prog_rows == progression_rows.val
        prog_tis == MapTo(Len(prog_rows), LAMBDA j : idx.tis[prog_rows[j]])
        prog_funcs == MapTo(Len(prog_rows), LAMBDA j :
                         harmonic_function_label_from_tis(prog_tis[j], protos))
        prog_d2 == MapTo(Len(prog_rows), LAMBDA j : d2[prog_rows[j]])
    IN [d1 |-> MapTo(n, LAMBDA i : Num(euclidean_distance(idx.tis[i], prev_tis))),
        d2 |-> d2,
        d3 |-> MapTo(n, LAMBDA i : D3Fold(Inf, idx.tis[i], k_tis, protos)),
        c |-> MapTo(n, LAMBDA i : dissonance_tension_from_tis_norm(idx.tis_norm[i])),
        m |-> MapTo(n, LAMBDA i :
                 IF i = prev_row THEN Num(0)
                 ELSE voice_leading_tension(idx.tis[prev_row], idx.tis[i])),
        h |-> MapTo(n, LAMBDA i :
                 IF ~hasProg \/ i = prev_row THEN Num(0)
                 ELSE hierarchical_tension_last(
                          Append(prog_tis, idx.tis[i]),
                          Append(prog_funcs,
                                 harmonic_function_label_from_tis(idx.tis[i], protos)),
                          Append(prog_d2, d2[i])))]

(***************************************************************************)
(* tonal_tension/weights.py and tonal_tension/model.py.                    *)
(***************************************************************************)
FeatureKeys == {"d1", "d2", "d3", "c", "m", "h"}

FeatureOf(features, key) ==
    CASE key = "d1" -> features.d1 [] key = "d2" -> features.d2
      [] key = "d3" -> features.d3 [] key = "c" -> features.c
      [] key = "m" -> features.m [] key = "h" -> features.h

\* DEFAULT_WEIGHTS = normalize_weights(PAPER_WEIGHTS_TABLE1), in units of
\* 1/1000: 0.158, 0.303, 0.271, 0.318 divided by their sum 1.05.
DEFAULT_WEIGHTS ==
    <<<<"d1", 0>>, <<"d2", 150>>, <<"d3", 0>>, <<"c", 289>>, <<"m", 258>>, <<"h", 303>>>>

\* np.nanmin / np.nanmax over a row of floats: nan when every entry is nan.
NanMin(vals) ==
    LET S == {i \in 1..Len(vals) : ~IsNaN(vals[i])}
    IN IF S = {} THEN NaN
       ELSE vals[CHOOSE i \in S : \A j \in S : ~FLess(vals[j], vals[i])]

NanMax(vals) ==
    LET S == {i \in 1..Len(vals) : ~IsNaN(vals[i])}
    IN IF S = {} THEN NaN
       ELSE vals[CHOOSE i \in S : \A j \in S : ~FLess(vals[i], vals[j])]

\* (vals - vmin) / span if span > 0 else zeros, in units of 1/1000.
Normed(vals) ==
    LET vmin == NanMin(vals)
        vmax == NanMax(vals)
        spanPos == IsNum(vmin) /\ IsNum(vmax) /\ vmax.v - vmin.v > 0
    IN MapTo(Len(vals), LAMBDA i :
          IF ~spanPos THEN Num(0)
          ELSE IF IsNum(vals[i])
               THEN Num(((vals[i].v - vmin.v) * 1000) \div (vmax.v - vmin.v))
               ELSE NaN)

\* One pass of the loop of compute_tension: tension += float(w) * values,
\* for every item of weights, whatever the weight.
Accumulate(tension, w, vals) ==
    MapTo(Len(tension), LAMBDA i : FAdd(tension[i], FScale(w, vals[i])))

\* features[key] raises KeyError for some item of weights.
WeightsRaise(weights) == \E j \in 1..Len(weights) : weights[j][1] \notin FeatureKeys

RECURSIVE TensionLoop(_, _, _, _)
TensionLoop(tension, features, weights, normalize) ==
    IF weights = <<>> THEN tension
    ELSE LET vals == FeatureOf(features, weights[1][1])
             used == IF normalize THEN Normed(vals) ELSE vals
         IN TensionLoop(Accumulate(tension, weights[1][2], used),
                        features, Tail(weights), normalize)

\* compute_tension(features, weights, normalize), in units of 1/1000000;
\* weights is None or Some(items) and has only known keys.
compute_tension(features, weights, normalize) ==
    LET w == IF weights.some THEN weights.val ELSE DEFAULT_WEIGHTS
    IN TensionLoop(MapTo(Len(features.d1), LAMBDA i : Num(0)), features, w, normalize)

\* float(goal): the goals that parse, with their value in units of 1/1000000.
GoalParses(goal) == goal \in {"0.5", "nan"}

ParseFloat(goal) == CASE goal = "0.5" -> Num(500000) [] goal = "nan" -> NaN

\* sort_key without the negation for goal "build".
SortKeyAscendingOnly(tension, goal) ==
    MapTo(Len(tension), LAMBDA i :
        IF GoalParses(goal) THEN FAbsDiff(tension[i], ParseFloat(goal))
        ELSE tension[i])

\* sort_key of suggest_next_chords.
SortKey(tension, goal) ==
    MapTo(Len(tension), LAMBDA i :
        IF GoalParses(goal) THEN FAbsDiff(tension[i], ParseFloat(goal))
        ELSE IF goal = "build" THEN FNeg(tension[i])
        ELSE tension[i])

\* The sort key handed to argsort as it is, nan included.
NanToInfKeepsNaN(keys) == keys

\* np.where(np.isnan(sort_key), np.inf, sort_key)
NanToInf(keys) == MapTo(Len(keys), LAMBDA i : IF IsNaN(keys[i]) THEN Inf ELSE keys[i])

\* np.argsort(keys) with the default kind (quicksort, not stable): every
\* ordering of the rows along which the keys never decrease; which one of
\* several rows with equal keys comes first is up to the numpy build.
RECURSIVE SortedOrders(_, _)
SortedOrders(rows, keys) ==
    IF rows = {} THEN {<<>>}
    ELSE LET least == {r \in rows : \A q \in rows : ~FLess(keys[q], keys[r])}
         IN UNION {{<<r>> \o rest : rest \in SortedOrders(rows \ {r}, keys)} : r \in least}

argsort(keys) == SortedOrders(1..Len(keys), keys)

\* The result dict of one row.
ResultRow(idx, features, tension, i, rank) ==
    LET reps == filter_slash_suggestions(reps_for_row(idx, i))
    IN [row |-> i, rank |-> rank,
        name |-> IF reps # <<>> THEN reps[1] ELSE idx.rep_names[i],
        d1 |-> features.d1[i], d2 |-> features.d2[i], d3 |-> features.d3[i],
        c |-> features.c[i], m |-> features.m[i], h |-> features.h[i],
        tension |-> tension[i]]

RaiseError(kind) == [NoOut EXCEPT !.status = "error", !.error = kind]

\* tension[prev_row] = np.nan
MaskPrev(tension, prev_row) ==
    MapTo(Len(tension), LAMBDA i : IF i = prev_row THEN NaN ELSE tension[i])

\* suggest_next_chords: the set of outcomes (one per ordering argsort may
\* return); progression is None or Some(names).
suggest_next_chords(idx, prev_chord, key_root, key_mode, top, weights, goal, progression, normalize) ==
    IF prev_chord \notin NamesInIndex(idx)
    THEN {RaiseError("ValueError:chord not found in index")}
    ELSE
    LET prev_row == build_name_to_row(idx, prev_chord)
        hasProg == progression.some /\ progression.val # <<>>
        prog == progression.val
    IN IF hasProg /\ \E j \in 1..Len(prog) : prog[j] \notin NamesInIndex(idx)
       THEN {RaiseError("ValueError:progression chord not found in index")}
       ELSE
       LET progression_rows ==
               IF hasProg
               THEN Some(MapTo(Len(prog), LAMBDA j : build_name_to_row(idx, prog[j])))
               ELSE None
       IN IF hasProg /\ progression_rows.val[Len(prog)] # prev_row
          THEN {RaiseError("ValueError:progression must end with prev_chord")}
          ELSE IF KeyLookupRaises(key_root)
          THEN {RaiseError("KeyError:key root")}
          ELSE
          LET feats == compute_features(idx, prev_row, key_root, key_mode, progression_rows)
          IN IF weights.some /\ WeightsRaise(weights.val)
             THEN {RaiseError("KeyError:weights")}
             ELSE
             LET tension == MaskPrev(compute_tension(feats, weights, normalize), prev_row)
                 sort_key == SortKey(tension, goal)
             IN {[status |-> "ok", error |-> "", prev_row |-> prev_row,
                  feats |-> feats, tension |-> tension, order |-> order,
                  results |-> MapTo(Len(Take(order, top)), LAMBDA k :
                                  ResultRow(idx, feats, tension, order[k], k))]
                 : order \in argsort(NanToInf(sort_key))}

(***************************************************************************)
(* chord_suggestion.py.                                                    *)
(***************************************************************************)
\* suggest_chords without the comparison of chord with the last chord of the
\* progression.
suggest_chords_unchecked(idx, q) ==
    LET parsed == parse_key(q.key)
        hasProg == q.progression.some /\ q.progression.val # <<>>
        prog_list == IF hasProg THEN q.progression ELSE None
        last == IF hasProg THEN q.progression.val[Len(q.progression.val)] ELSE <<>>
        chosen_chord == IF hasProg /\ ~q.chord.some THEN Some(last) ELSE q.chord
    IN IF ~parsed.ok THEN {RaiseError("ValueError:cannot parse key")}
       ELSE IF ~chosen_chord.some
       THEN {RaiseError("ValueError:either chord or progression must be provided")}
       ELSE suggest_next_chords(idx, chosen_chord.val, parsed.root, parsed.mode,
                                q.top, q.weights, q.goal, prog_list, q.normalize)

\* suggest_chords: the set of outcomes of one call.
suggest_chords(idx, q) ==
    LET parsed == parse_key(q.key)
        hasProg == q.progression.some /\ q.progression.val # <<>>
        prog_list == IF hasProg THEN q.progression ELSE None
        last == IF hasProg THEN q.progression.val[Len(q.progression.val)] ELSE <<>>
        chosen_chord == IF hasProg /\ ~q.chord.some THEN Some(last) ELSE q.chord
    IN IF ~parsed.ok THEN {RaiseError("ValueError:cannot parse key")}
       ELSE IF hasProg /\ q.chord.some /\ q.chord.val # last
       THEN {RaiseError("ValueError:chord must match the last chord in progression")}
       ELSE IF ~chosen_chord.some
       THEN {RaiseError("ValueError:either chord or progression must be provided")}
       ELSE suggest_next_chords(idx, chosen_chord.val, parsed.root, parsed.mode,
                                q.top, q.weights, q.goal, prog_list, q.normalize)

(***************************************************************************)
(* Corpus ingestion: a chord dictionary is filled entry by entry and then  *)
(* handed to build_tis_index.                                              *)
(***************************************************************************)
MaxCorpus == 3

BitsC == BitsOfPcs({0, 4, 7})
BitsF == BitsOfPcs({5, 9, 0})
BitsAm7 == BitsOfPcs({9, 0, 4, 7})
BitsG7 == BitsOfPcs({7, 11, 2, 5})
BitsCmaj13 == BitsOfPcs({0, 2, 4, 5, 7, 9, 11})
BitsZero == BitsOfPcs({})
BitsBadValue == [BitsC EXCEPT ![1] = 2]
BitsShort == Take(BitsC, CHROMA_LEN - 1)

BuildNames ==
    {<<"C">>, <<"C", "/", "E">>, <<"A", "m", "7">>, <<"C", "6">>, <<"G", "7">>}

BuildBits == {BitsC, BitsAm7, BitsG7, BitsZero, BitsBadValue, BitsShort}

CorpusNames(corp) == {corp[i].name : i \in 1..Len(corp)}

InitBuild ==
    /\ corpus = <<>>
    /\ index = NoIndex
    /\ query = NoQuery
    /\ out = NoOut
    /\ call = NoCall
    /\ tree = NoTree
    /\ det = NoDetector
    /\ ws = NoServer

\* chords_to_bits[name] = bits for a new name.
AddChord ==
    /\ index.status = "none"
    /\ Len(corpus) < MaxCorpus
    /\ \E name \in BuildNames \ CorpusNames(corpus), bits \in BuildBits :
          corpus' = Append(corpus, [name |-> name, bits |-> bits])
    /\ UNCHANGED <<index, query, out, call, tree, det, ws>>

\* index = build_tis_index(chords_to_bits)
Build ==
    /\ index.status = "none"
    /\ index' = build_tis_index(corpus)
    /\ UNCHANGED <<corpus, query, out, call, tree, det, ws>>

NextBuild == AddChord \/ Build

SpecBuild == InitBuild /\ [][NextBuild]_vars

(***************************************************************************)
(* Corpus ingestion with many names for few chromas: enharmonic roots,     *)
(* slashed names, and names longer than the width of the name arrays.      *)
(***************************************************************************)
Repeat(ch, n) == [i \in 1..n |-> ch]

NameASharp == <<"A", "#">>
NameBFlat == <<"B", "b">>
NameBFlatOverD == <<"B", "b", "/", "D">>
NameLongD == <<"D">> \o Repeat("a", NAME_WIDTH)
NameLongC == <<"C">> \o Repeat("a", NAME_WIDTH + 1)

AliasNames == {NameASharp, NameBFlat, NameBFlatOverD, NameLongD, NameLongC}

BitsBFlat == BitsOfPcs({10, 2, 5})
BitsAll == BitsOfPcs(0..11)

AliasBits == {BitsBFlat, BitsAll}

\* chords_to_bits[name] = bits for a new name.
AddAlias ==
    /\ index.status = "none"
    /\ Len(corpus) < MaxCorpus
    /\ \E name \in AliasNames \ CorpusNames(corpus), bits \in AliasBits :
          corpus' = Append(corpus, [name |-> name, bits |-> bits])
    /\ UNCHANGED <<index, query, out, call, tree, det, ws>>

NextAliases == AddAlias \/ Build

SpecAliases == InitBuild /\ [][NextAliases]_vars

(***************************************************************************)
(* Queries against a built index: the index is built once from one of the  *)
(* corpora below and is then queried; the caller drops each outcome before *)
(* the next query.                                                         *)
(***************************************************************************)
MaxTop == 3
MaxProgLen == 2

Entry(name, bits) == [name |-> name, bits |-> bits]

NameC == <<"C">>
NameCE == <<"C", "/", "E">>
NameF == <<"F">>
NameG7 == <<"G", "7">>
NameAm7 == <<"A", "m", "7">>
NameC6 == <<"C", "6">>
NameCmaj13 == <<"C", "m", "a", "j", "1", "3">>
NameX == <<"X">>

\* Two, three and four rows.
CorpusSmall == <<Entry(NameG7, BitsG7), Entry(NameC, BitsC)>>
CorpusMid ==
    <<Entry(NameCE, BitsC), Entry(NameCmaj13, BitsCmaj13), Entry(NameG7, BitsG7),
      Entry(NameC, BitsC)>>
CorpusBig ==
    <<Entry(NameF, BitsF), Entry(NameC, BitsC), Entry(NameAm7, BitsAm7),
      Entry(NameC6, BitsAm7), Entry(NameG7, BitsG7)>>

QueryCorpora == {CorpusSmall, CorpusMid, CorpusBig}

KeyC == <<"C">>
KeyAm == <<"A", "m">>
KeyGMajor == <<"G", " ", "m", "a", "j", "o", "r">>
KeyHMajor == <<"H", " ", "m", "a", "j", "o", "r">>
KeyEmpty == <<>>

KeyChoices == {KeyC, KeyAm, KeyGMajor, KeyHMajor, KeyEmpty}

GoalChoices == {"resolve", "build", "0.5", "nan"}

WeightsChoices ==
    {None,
     Some(<<<<"d2", 1000>>>>),
     Some(<<<<"h", 1000>>>>),
     Some(<<<<"c", 1000>>, <<"d3", 0>>>>),
     Some(<<<<"x", 1000>>>>),
     Some(<<<<"c", 0 - 1000>>, <<"m", 1000>>>>)}

ChordChoices(idx) == {None} \cup {Some(n) : n \in NamesInIndex(idx) \cup {NameX}}

ProgNames(idx) == {idx.rep_names[1], idx.rep_names[NumRows(idx)], NameX}

ProgressionChoices(idx) ==
    {None} \cup {Some(p) : p \in UNION {[1..n -> ProgNames(idx)] : n \in 0..MaxProgLen}}

\* The chord, the progression and the key of a query are accepted.
WellFormedQuery(idx, chord, progression, key) ==
    LET hasProg == progression.some /\ progression.val # <<>>
        prog == progression.val
    IN /\ parse_key(key).ok
       /\ ~KeyLookupRaises(parse_key(key).root)
       /\ chord.some \/ hasProg
       /\ chord.some => chord.val \in NamesInIndex(idx)
       /\ hasProg => /\ \A j \in 1..Len(prog) : prog[j] \in NamesInIndex(idx)
                     /\ chord.some => chord.val = prog[Len(prog)]

\* The ranking parameters of a query are the plain ones.
PlainQuery(top, goal, normalize) == top = MaxTop /\ goal = "resolve" /\ normalize

Init ==
    /\ corpus \in QueryCorpora
    /\ index = build_tis_index(corpus)
    /\ query = NoQuery
    /\ out = NoOut
    /\ call = NoCall
    /\ tree = NoTree
    /\ det = NoDetector
    /\ ws = NoServer

BufferOwnerTensionInIndex(buffer) ==
    CASE buffer = "offset_unit" -> "call"
      [] buffer = "angles_out" -> "call"
      [] buffer = "m" -> "call"
      [] buffer = "h" -> "call"
      [] buffer = "tension" -> "tis_norm"
      [] buffer = "results" -> "call"

\* The arrays that a call writes in place (item or slice assignment, +=),
\* each with the memory it lives in: "call" for an array allocated during
\* the call, or the name of the index array whose memory it is.
BufferOwner(buffer) ==
    CASE buffer = "offset_unit" -> "call"   \* np.zeros_like(offset)
      [] buffer = "angles_out" -> "call"    \* np.full(n, nan) in vectorized_angles
      [] buffer = "m" -> "call"             \* np.zeros(n)
      [] buffer = "h" -> "call"             \* np.zeros(n)
      [] buffer = "tension" -> "call"       \* np.zeros_like(features["d1"])
      [] buffer = "results" -> "call"       \* the result dicts

\* compute_features writes its own arrays; a call that gets as far as
\* ranking also writes tension (+=, tension[prev_row] = nan) and the result
\* dicts of the post-processing loop.
StoredBuffers(o) ==
    IF o.status = "ok"
    THEN {"offset_unit", "angles_out", "m", "h", "tension", "results"}
    ELSE {"offset_unit", "angles_out", "m", "h"}

\* The index after these stores: an index array that one of the written
\* buffers lives in no longer holds what the build put there.
AfterStores(idx, buffers) ==
    [f \in DOMAIN idx |->
        IF \E b \in buffers : BufferOwner(b) = f THEN <<>> ELSE idx[f]]

\* One call of suggest_chords on the index.  (A query whose chord,
\* progression or key is rejected is issued with the plain ranking
\* parameters only: they are not read before the rejection.)
Query ==
    /\ index.status = "ok"
    /\ out.status = "none"
    /\ \E chord \in ChordChoices(index), progression \in ProgressionChoices(index),
          key \in KeyChoices :
          LET wf == WellFormedQuery(index, chord, progression, key) IN
          \E top \in 1..MaxTop, goal \in GoalChoices, normalize \in BOOLEAN :
             /\ wf \/ PlainQuery(top, goal, normalize)
             /\ \E weights \in WeightsChoices :
                   LET q == [chord |-> chord, progression |-> progression,
                             key |-> key, top |-> top, goal |-> goal,
                             weights |-> weights, normalize |-> normalize]
                   IN /\ query' = q
                      /\ out' \in suggest_chords(index, q)
    /\ index' = AfterStores(index, StoredBuffers(out'))
    /\ UNCHANGED <<corpus, call, tree, det, ws>>

\* The caller is done with the outcome of the call.
Discard ==
    /\ out.status # "none"
    /\ query' = NoQuery
    /\ out' = NoOut
    /\ UNCHANGED <<corpus, index, call, tree, det, ws>>

Next == Query \/ Discard

Spec == Init /\ [][Next]_vars

(***************************************************************************)
(* The helper functions called on their own: chroma_index.py's bit/mask    *)
(* conversions and name filters, theory.py's parse_key.                    *)
(***************************************************************************)
MaxNames == 3

PureNames ==
    {<<"C", "6">>, <<"C", "m">>, <<"C", "/", "E">>, <<"C", "/", "G">>,
     <<"A", "m">>, <<"A", "m", "a", "j", "7">>, <<"a", "/", "E">>, <<"N", "C">>}

NameLists == UNION {[1..n -> PureNames] : n \in 0..MaxNames}

BitVectors == [1..CHROMA_LEN -> {0, 1}] \cup {BitsBadValue, BitsShort}

MaskInputs == (0 - 1)..Pow2(CHROMA_LEN)

KeyLowerCMinor == <<"c", " ", "m", "i", "n", "o", "r">>
KeyCMaj == <<"C", "m", "a", "j">>
KeyAMinPadded == <<" ", "A", " ", "m", "i", "n", " ">>
KeyHm == <<"H", "m">>

KeyStrings == KeyChoices \cup {KeyLowerCMinor, KeyCMaj, KeyAMinPadded, KeyHm}

InitPure ==
    /\ corpus = <<>>
    /\ index = NoIndex
    /\ query = NoQuery
    /\ out = NoOut
    /\ call = NoCall
    /\ tree = NoTree
    /\ det = NoDetector
    /\ ws = NoServer

CallBitsToMask ==
    /\ call.fn = "none"
    /\ \E bits \in BitVectors :
          call' = [fn |-> "bits_to_mask", arg |-> bits,
                   ret |-> IF BitsToMaskRaises(bits) THEN Raised("ChromaInputError")
                           ELSE Returned(bits_to_mask(bits))]
    /\ UNCHANGED <<corpus, index, query, out, tree, det, ws>>

CallMaskToBits ==
    /\ call.fn = "none"
    /\ \E mask \in MaskInputs :
          call' = [fn |-> "mask_to_bits", arg |-> mask,
                   ret |-> IF MaskToBitsRaises(mask) THEN Raised("ChromaInputError")
                           ELSE Returned(mask_to_bits(mask))]
    /\ UNCHANGED <<corpus, index, query, out, tree, det, ws>>

CallParseKey ==
    /\ call.fn = "none"
    /\ \E key_str \in KeyStrings :
          call' = [fn |-> "parse_key", arg |-> key_str,
                   ret |-> IF parse_key(key_str).ok
                           THEN Returned(<<parse_key(key_str).root, parse_key(key_str).mode>>)
                           ELSE Raised("ValueError")]
    /\ UNCHANGED <<corpus, index, query, out, tree, det, ws>>

CallFilterSlash ==
    /\ call.fn = "none"
    /\ \E names \in NameLists :
          call' = [fn |-> "filter_slash_suggestions", arg |-> names,
                   ret |-> Returned(filter_slash_suggestions(names))]
    /\ UNCHANGED <<corpus, index, query, out, tree, det, ws>>

CallRepsByRoot ==
    /\ call.fn = "none"
    /\ \E names \in NameLists :
          call' = [fn |-> "choose_representatives_by_root", arg |-> names,
                   ret |-> Returned(choose_representatives_by_root(names))]
    /\ UNCHANGED <<corpus, index, query, out, tree, det, ws>>

\* The caller is done with the result.
Return ==
    /\ call.fn # "none"
    /\ call' = NoCall
    /\ UNCHANGED <<corpus, index, query, out, tree, det, ws>>

NextPure ==
    \/ CallBitsToMask
    \/ CallMaskToBits
    \/ CallParseKey
    \/ CallFilterSlash
    \/ CallRepsByRoot
    \/ Return

SpecPure == InitPure /\ [][NextPure]_vars

(***************************************************************************)
(* hierarchical_tension_last run step by step: one action per iteration of *)
(* the rule loop, of the ROOT loop and of the walk from the last leaf to   *)
(* the root.  Positions are numbered from 1: the last leaf is n here.      *)
(***************************************************************************)
MaxLabels == 4

FuncLabels == {"t", "s", "d"}

LabelSeqs == UNION {[1..n -> FuncLabels] : n \in 0..MaxLabels}

KeyDistanceChoices == {Num(0), Num(1000)}

\* The leaf nodes: Node(kind=region[f], start=i, end=i+1, head_pos=i).
LeafNodes(func_labels) ==
    MapTo(Len(func_labels), LAMBDA i :
        [kind |-> RegionOf(func_labels[i]), start |-> i, end |-> i + 1, head_pos |-> i])

\* One iteration of the rule loop: st itself when no rule has a match.
RuleMerge(st) ==
    LET r1 == FirstPair(st.nodes, "SR", "DR")
        r2 == FirstPair(st.nodes, "DR", "TR")
        r3 == FirstPair(st.nodes, "TR", "DR")
    IN IF r1 # 0 THEN merge(st, r1, "DR", st.nodes[r1 + 1].head_pos)
       ELSE IF r2 # 0 THEN merge(st, r2, "TR", st.nodes[r2 + 1].head_pos)
       ELSE IF r3 # 0 THEN merge(st, r3, "TR", st.nodes[r3].head_pos)
       ELSE st

\* One iteration of the ROOT loop.
RootMerge(st, func_labels, key_distances) ==
    merge(st, 1, "ROOT",
          stable_head(st.nodes[1].head_pos, st.nodes[2].head_pos, func_labels, key_distances))

walk_keep_all(hp, n, parent_heads) == TRUE

\* The walk keeps a head that is not the last leaf and differs from the
\* head kept last.
walk_keep(hp, n, parent_heads) ==
    hp # n /\ (parent_heads = <<>> \/ parent_heads[Len(parent_heads)] # hp)

TreeRun(pc, func_labels, key_distances, st, merges, walked, parent_heads) ==
    [pc |-> pc, func_labels |-> func_labels, key_distances |-> key_distances,
     st |-> st, merges |-> merges, walked |-> walked, parent_heads |-> parent_heads]

InitTree ==
    /\ corpus = <<>>
    /\ index = NoIndex
    /\ query = NoQuery
    /\ out = NoOut
    /\ call = NoCall
    /\ tree = NoTree
    /\ det = NoDetector
    /\ ws = NoServer

\* hierarchical_tension_last is called: n <= 1 returns at once.
CallTree ==
    /\ tree.pc = "idle"
    /\ \E func_labels \in LabelSeqs :
          \E key_distances \in [1..Len(func_labels) -> KeyDistanceChoices] :
             tree' = TreeRun(IF Len(func_labels) <= 1 THEN "done" ELSE "rules",
                             func_labels, key_distances,
                             [nodes |-> LeafNodes(func_labels), chain |-> <<>>],
                             0, 0, <<>>)
    /\ UNCHANGED <<corpus, index, query, out, call, det, ws>>

\* while changed and len(nodes) > 1: a rule has a match and merges.
RuleMergeStep ==
    /\ tree.pc = "rules"
    /\ Len(tree.st.nodes) > 1
    /\ RuleMerge(tree.st) # tree.st
    /\ tree' = [tree EXCEPT !.st = RuleMerge(tree.st), !.merges = @ + 1]
    /\ UNCHANGED <<corpus, index, query, out, call, det, ws>>

\* The rule loop ends: one node is left or no rule has a match.
RulesExhausted ==
    /\ tree.pc = "rules"
    /\ Len(tree.st.nodes) <= 1 \/ RuleMerge(tree.st) = tree.st
    /\ tree' = [tree EXCEPT !.pc = "root"]
    /\ UNCHANGED <<corpus, index, query, out, call, det, ws>>

\* while len(nodes) > 1: nodes[0:2] = [ROOT node]
RootMergeStep ==
    /\ tree.pc = "root"
    /\ Len(tree.st.nodes) > 1
    /\ tree' = [tree EXCEPT
                  !.st = RootMerge(tree.st, tree.func_labels, tree.key_distances),
                  !.merges = @ + 1]
    /\ UNCHANGED <<corpus, index, query, out, call, det, ws>>

\* current = leaf_nodes[-1].parent
StartWalk ==
    /\ tree.pc = "root"
    /\ Len(tree.st.nodes) <= 1
    /\ tree' = [tree EXCEPT !.pc = "walk"]
    /\ UNCHANGED <<corpus, index, query, out, call, det, ws>>

\* while current is not None: one ancestor of the last leaf.
WalkStep ==
    /\ tree.pc = "walk"
    /\ tree.walked < Len(tree.st.chain)
    /\ LET hp == tree.st.chain[tree.walked + 1] IN
       tree' = [tree EXCEPT
                  !.walked = @ + 1,
                  !.parent_heads =
                      IF walk_keep(hp, Len(tree.func_labels), @) THEN Append(@, hp) ELSE @]
    /\ UNCHANGED <<corpus, index, query, out, call, det, ws>>

\* current is None: the walk is over.
FinishWalk ==
    /\ tree.pc = "walk"
    /\ tree.walked = Len(tree.st.chain)
    /\ tree' = [tree EXCEPT !.pc = "done"]
    /\ UNCHANGED <<corpus, index, query, out, call, det, ws>>

\* The caller has the result.
ReturnTree ==
    /\ tree.pc = "done"
    /\ tree' = NoTree
    /\ UNCHANGED <<corpus, index, query, out, call, det, ws>>

RunTree ==
    \/ RuleMergeStep
    \/ RulesExhausted
    \/ RootMergeStep
    \/ StartWalk
    \/ WalkStep
    \/ FinishWalk

NextTree == CallTree \/ RunTree \/ ReturnTree

SpecTree == InitTree /\ [][NextTree]_vars

\* A call that has started keeps running: the function is sequential code.
SpecTreeFair == SpecTree /\ WF_vars(RunTree)

(***************************************************************************)
(* tonal_tension/voice_leading.py, computed from the pitch classes.  Costs *)
(* are in units of 1/1000 and exp(-0.05 * cost) in units of 1/10^8, both   *)
(* added exactly.                                                          *)
(***************************************************************************)
PC_DIST(i, j) ==
    LET d == IF i >= j THEN i - j ELSE j - i
    IN IF d <= 12 - d THEN d ELSE 12 - d

\* euclidean_distance(NOTE_TIS[i], NOTE_TIS[j]), which depends on
\* PC_DIST[i, j] = s only.
NoteTisDistanceTable(s) ==
    CASE s = 0 -> 0
      [] s = 1 -> 54876
      [] s = 2 -> 51498
      [] s = 3 -> 44587
      [] s = 4 -> 47181
      [] s = 5 -> 42127
      [] s = 6 -> 51147

NOTE_TIS_NORM == 32863

addition_penalty == 4

\* np.exp(-0.05 * c) for the costs c that a cell can hold.
ExpTable(c) ==
    CASE c = 0 -> 100000000
      [] c = 54876 -> 6432545
      [] c = 102996 -> 580056
      [] c = 131452 -> 139816
      [] c = 133761 -> 124571
      [] c = 188724 -> 7978
      [] c = 210635 -> 2668
      [] c = 306882 -> 22

\* _chroma_to_pc_list(bits): the 0-based positions of the truthy entries.
chroma_to_pc_list(bits) ==
    SelectSeq([i \in 1..Len(bits) |-> i - 1], LAMBDA p : bits[p + 1] # 0)

\* The cost of moving up from a to b only, at most a tritone.
cost_matrix_upward(pcs_a, pcs_b) ==
    LET na == Len(pcs_a)
        nb == Len(pcs_b)
        n == IF na >= nb THEN na ELSE nb
        up(i, j) == IF (pcs_b[j] - pcs_a[i]) % 12 <= 6 THEN (pcs_b[j] - pcs_a[i]) % 12 ELSE 6
    IN [i \in 1..n |-> [j \in 1..n |->
          IF i <= na /\ j <= nb
          THEN up(i, j) * NoteTisDistanceTable(up(i, j))
          ELSE addition_penalty * NOTE_TIS_NORM]]

\* The n x n cost matrix, filled with the penalty and overwritten with
\* s * mu for the na x nb cells of real pitch classes.
cost_matrix(pcs_a, pcs_b) ==
    LET na == Len(pcs_a)
        nb == Len(pcs_b)
        n == IF na >= nb THEN na ELSE nb
    IN [i \in 1..n |-> [j \in 1..n |->
          IF i <= na /\ j <= nb
          THEN PC_DIST(pcs_a[i], pcs_b[j]) * NoteTisDistanceTable(PC_DIST(pcs_a[i], pcs_b[j]))
          ELSE addition_penalty * NOTE_TIS_NORM]]

SetMin(S) == CHOOSE x \in S : \A y \in S : x <= y

\* The fallback for n <= 8: itertools.permutations in lexicographic order,
\* the first permutation of least total kept (total < best is strict).
\* brute_force(cost, i, cols) is that choice for rows i.. over the columns
\* cols: <<total, columns of the rows i..n>>.
RECURSIVE brute_force(_, _, _)
brute_force(cost, i, cols) ==
    IF cols = {} THEN <<0, <<>>>>
    ELSE LET cands == {<<j, brute_force(cost, i + 1, cols \ {j})>> : j \in cols}
             total(cd) == cost[i][cd[1]] + cd[2][1]
             best == SetMin({total(cd) : cd \in cands})
             first == SetMin({cd[1] : cd \in {x \in cands : total(x) = best}})
             sel == CHOOSE cd \in cands : cd[1] = first
         IN <<best, <<first>> \o sel[2][2]>>

SetMax(S) == CHOOSE x \in S : \A y \in S : x >= y

RECURSIVE greedy_dearest_first(_, _, _, _, _)
greedy_dearest_first(cost, n, used_r, used_c, picked) ==
    IF Cardinality(used_r) = n THEN picked
    ELSE LET free == ((1..n) \ used_r) \X ((1..n) \ used_c)
             c_val == SetMax({cost[c[1]][c[2]] : c \in free})
             i == SetMin({c[1] : c \in {x \in free : cost[x[1]][x[2]] = c_val}})
             j == SetMin({c[2] : c \in {x \in free : cost[x[1]][x[2]] = c_val /\ x[1] = i}})
         IN greedy_dearest_first(cost, n, used_r \cup {i}, used_c \cup {j},
                                 Append(picked, <<i, j>>))

\* The fallback for n > 8: the cells in ascending (cost, i, j), each taken if
\* its row and its column are still free.  <<i, j>> of the picks, in order.
RECURSIVE greedy(_, _, _, _, _)
greedy(cost, n, used_r, used_c, picked) ==
    IF Cardinality(used_r) = n THEN picked
    ELSE LET free == ((1..n) \ used_r) \X ((1..n) \ used_c)
             c_val == SetMin({cost[c[1]][c[2]] : c \in free})
             i == SetMin({c[1] : c \in {x \in free : cost[x[1]][x[2]] = c_val}})
             j == SetMin({c[2] : c \in {x \in free : cost[x[1]][x[2]] = c_val /\ x[1] = i}})
         IN greedy(cost, n, used_r \cup {i}, used_c \cup {j}, Append(picked, <<i, j>>))

\* scipy.optimize.linear_sum_assignment(cost): some assignment of least
\* total; which one, when several have it, is up to the library.
\* AssignmentLayer(cost, n, k): for each set S of k columns, the least total
\* of the rows 1..k over S and the cost[row_ind, col_ind] of the assignments
\* that have it.
RECURSIVE AssignmentLayer(_, _, _)
AssignmentLayer(cost, n, k) ==
    IF k = 0 THEN {[cols |-> {}, total |-> 0, chosen |-> {<<>>}]}
    ELSE LET prev == AssignmentLayer(cost, n, k - 1)
             entry(S) ==
                 LET cands == {<<j, CHOOSE r \in prev : r.cols = S \ {j}>> : j \in S}
                     best == SetMin({cost[k][cd[1]] + cd[2].total : cd \in cands})
                 IN [cols |-> S, total |-> best,
                     chosen |-> UNION {{Append(ch, cost[k][cd[1]]) : ch \in cd[2].chosen} :
                                   cd \in {x \in cands : cost[k][x[1]] + x[2].total = best}}]
         IN {entry(S) : S \in {T \in SUBSET (1..n) : Cardinality(T) = k}}

linear_sum_assignment(cost, n) == CHOOSE r \in AssignmentLayer(cost, n, n) : TRUE

\* chosen, as <<cells, costs>>, for each assignment the solver may return.
Chosen(cost, n, scipy) ==
    IF scipy
    THEN {<<"scipy", ch>> : ch \in linear_sum_assignment(cost, n).chosen}
    ELSE LET cells == IF n <= 8
                      THEN LET best_perm == brute_force(cost, 1, 1..n)[2]
                           IN [i \in 1..n |-> <<i, best_perm[i]>>]
                      ELSE greedy(cost, n, {}, {}, <<>>)
         IN {<<cells, [k \in 1..n |-> cost[cells[k][1]][cells[k][2]]]>>}

\* stability = sum(exp(-0.05 * chosen)); the value returned is -stability.
Stability(chosen) == SumSeq([k \in 1..Len(chosen) |-> ExpTable(chosen[k])])

\* voice_leading_tension(bits_a, bits_b): every <<cells, chosen, value>> the
\* call can end with.
VoiceLeadingRuns(bits_a, bits_b, scipy) ==
    LET pcs_a == chroma_to_pc_list(bits_a)
        pcs_b == chroma_to_pc_list(bits_b)
        cost == cost_matrix(pcs_a, pcs_b)
    IN IF pcs_a = <<>> \/ pcs_b = <<>> THEN {<<<<>>, <<>>, 0>>}
       ELSE {<<ch[1], ch[2], 0 - Stability(ch[2])>> : ch \in Chosen(cost, Len(cost), scipy)}

\* The chromas of the calls, by their pitch classes: none, C, the triads
\* C, F, C-C#-D, D-A-C, Caug and Daug, Am7, G7, the C major scale and two
\* chromas of nine notes.
VoicePcSets ==
    {{}, {0}, {0, 4, 7}, {0, 5, 9}, {0, 1, 2}, {0, 2, 9}, {0, 4, 8}, {2, 6, 10},
     {0, 4, 7, 9}, {2, 5, 7, 11},
     {0, 2, 4, 5, 7, 9, 11}, 0..8, (0..6) \cup {8, 11}}

InitVoice == InitPure

CallVoiceLeading ==
    /\ call.fn = "none"
    /\ \E A, B \in VoicePcSets, scipy \in BOOLEAN :
       \E run \in VoiceLeadingRuns(BitsOfPcs(A), BitsOfPcs(B), scipy) :
          call' = [fn |-> "voice_leading_tension",
                   arg |-> <<BitsOfPcs(A), BitsOfPcs(B)>>,
                   scipy |-> scipy, cells |-> run[1], chosen |-> run[2],
                   ret |-> Returned(run[3])]
    /\ UNCHANGED <<corpus, index, query, out, tree, det, ws>>

NextVoice == CallVoiceLeading \/ Return

SpecVoice == InitVoice /\ [][NextVoice]_vars

(***************************************************************************)
(* tis_index.py: TISIndex.to_npz and from_npz.  An archive is a function   *)
(* from its keys to arrays; tis_unit is left out as in the index, and      *)
(* meta_json holds num_chords.                                             *)
(***************************************************************************)
to_npz(idx) ==
    [rep_names |-> idx.rep_names, chroma_bits |-> idx.chroma_bits,
     chroma_mask |-> idx.chroma_mask, tis |-> idx.tis, tis_norm |-> idx.tis_norm,
     rep_offsets |-> idx.rep_offsets, rep_names_by_root |-> idx.rep_names_by_root,
     alias_offsets |-> idx.alias_offsets, alias_names |-> idx.alias_names,
     meta_json |-> idx.num_chords]

Without(z, keys) == [k \in (DOMAIN z) \ keys |-> z[k]]

\* An archive of the oldest kind: one row per chord name, in the order of
\* the names.
FlatRows(corp) ==
    [names |-> AsU64List([i \in 1..Len(corp) |-> corp[i].name]),
     chroma_bits |-> [i \in 1..Len(corp) |-> corp[i].bits],
     chroma_mask |-> [i \in 1..Len(corp) |-> bits_to_mask(corp[i].bits)],
     tis |-> [i \in 1..Len(corp) |-> bits_to_mask(corp[i].bits)],
     tis_norm |-> [i \in 1..Len(corp) |-> tis_norm_of(bits_to_mask(corp[i].bits))],
     meta_json |-> Len(corp)]

ArchiveShapes ==
    {"current", "no_rep_offsets", "no_rep_names_by_root", "no_reps", "flat_rows"}

\* The archive of the given shape for a corpus and the index built from it.
Archive(shape, corp, idx) ==
    CASE shape = "current" -> to_npz(idx)
      [] shape = "no_rep_offsets" -> Without(to_npz(idx), {"rep_offsets"})
      [] shape = "no_rep_names_by_root" -> Without(to_npz(idx), {"rep_names_by_root"})
      [] shape = "no_reps" -> Without(to_npz(idx), {"rep_offsets", "rep_names_by_root"})
      [] shape = "flat_rows" -> FlatRows(corp)

\* np.arange(0, m + 1)
ARange(m) == [i \in 1..(m + 1) |-> i - 1]

\* Every alias taken as a representative where none is stored.
from_npz_reps_from_aliases(z) ==
    IF "rep_names" \in DOMAIN z
    THEN LET stored == "rep_offsets" \in DOMAIN z /\ "rep_names_by_root" \in DOMAIN z
         IN [status |-> "ok", error |-> "", error_names |-> <<>>,
             rep_names |-> z["rep_names"], chroma_bits |-> z["chroma_bits"],
             chroma_mask |-> z["chroma_mask"], tis |-> z["tis"],
             tis_norm |-> z["tis_norm"],
             rep_offsets |-> IF stored THEN z["rep_offsets"] ELSE z["alias_offsets"],
             rep_names_by_root |-> IF stored THEN z["rep_names_by_root"]
                                   ELSE z["alias_names"],
             alias_offsets |-> z["alias_offsets"], alias_names |-> z["alias_names"],
             num_chords |-> z["meta_json"]]
    ELSE LET n == Len(z["names"])
         IN [status |-> "ok", error |-> "", error_names |-> <<>>,
             rep_names |-> z["names"], chroma_bits |-> z["chroma_bits"],
             chroma_mask |-> z["chroma_mask"], tis |-> z["tis"],
             tis_norm |-> z["tis_norm"],
             rep_offsets |-> ARange(n), rep_names_by_root |-> z["names"],
             alias_offsets |-> ARange(n), alias_names |-> z["names"],
             num_chords |-> z["meta_json"]]

\* TISIndex.from_npz(path), by the archive z at the path.
from_npz(z) ==
    IF "rep_names" \in DOMAIN z
    THEN LET stored == "rep_offsets" \in DOMAIN z /\ "rep_names_by_root" \in DOMAIN z
             m == Len(z["rep_names"])
         IN [status |-> "ok", error |-> "", error_names |-> <<>>,
             rep_names |-> z["rep_names"], chroma_bits |-> z["chroma_bits"],
             chroma_mask |-> z["chroma_mask"], tis |-> z["tis"],
             tis_norm |-> z["tis_norm"],
             rep_offsets |-> IF stored THEN z["rep_offsets"] ELSE ARange(m),
             rep_names_by_root |-> IF stored THEN z["rep_names_by_root"]
                                   ELSE z["rep_names"],
             alias_offsets |-> z["alias_offsets"], alias_names |-> z["alias_names"],
             num_chords |-> z["meta_json"]]
    ELSE LET n == Len(z["names"])
         IN [status |-> "ok", error |-> "", error_names |-> <<>>,
             rep_names |-> z["names"], chroma_bits |-> z["chroma_bits"],
             chroma_mask |-> z["chroma_mask"], tis |-> z["tis"],
             tis_norm |-> z["tis_norm"],
             rep_offsets |-> ARange(n), rep_names_by_root |-> z["names"],
             alias_offsets |-> ARange(n), alias_names |-> z["names"],
             num_chords |-> z["meta_json"]]

\* The chords that the archive is written from: chromas that an index can
\* be built from.
ArchiveBits == {BitsC, BitsAm7, BitsG7}

ArchiveNames == {<<"C">>, <<"C", "/", "E">>, <<"A", "m", "7">>, <<"C", "6">>}

AddArchiveChord ==
    /\ index.status = "none"
    /\ Len(corpus) < MaxCorpus
    /\ \E name \in ArchiveNames \ CorpusNames(corpus), bits \in ArchiveBits :
          corpus' = Append(corpus, [name |-> name, bits |-> bits])
    /\ UNCHANGED <<index, query, out, call, tree, det, ws>>

\* index = TISIndex.from_npz(path) for an archive written from the corpus.
LoadNpz ==
    /\ index.status = "none"
    /\ call.fn = "none"
    /\ LET built == build_tis_index(corpus) IN
       /\ built.status = "ok"
       /\ \E shape \in ArchiveShapes :
             LET z == Archive(shape, corpus, built) IN
             /\ call' = [fn |-> "from_npz", arg |-> z, ret |-> Returned(shape)]
             /\ index' = from_npz(z)
    /\ UNCHANGED <<corpus, query, out, tree, det, ws>>

NextLoad == AddArchiveChord \/ LoadNpz

SpecLoad == InitBuild /\ [][NextLoad]_vars

(***************************************************************************)
(* pianomidi/detector.py: ChordDetector.  One thread delivers the MIDI     *)
(* callbacks; every threading.Timer is a thread of its own that waits,     *)
(* and unless cancelled by then calls _detect.  The sections under         *)
(* _debounce_lock are atomic; held_notes is read and written outside it.   *)
(***************************************************************************)
MaxEvents == 2

\* C4, E4 and C5.
MidiNotes == {60, 64, 72}

NOTE_NAMES ==
    <<<<"C">>, <<"C", "#">>, <<"D">>, <<"D", "#">>, <<"E">>, <<"F">>, <<"F", "#">>,
      <<"G">>, <<"G", "#">>, <<"A">>, <<"A", "#">>, <<"B">>>>

\* [1 if i in {n % 12 for n in held_notes} else 0 for i in range(12)]
chroma_of(held_notes) ==
    [i \in 1..12 |-> IF \E n \in held_notes : n % 12 = i - 1 THEN 1 ELSE 0]

\* [NOTE_NAMES[pc] for pc in sorted({n % 12 for n in held_notes})]
names_of(held_notes) ==
    LET pitch_classes == SortInts({n % 12 : n \in held_notes})
    IN [k \in 1..Len(pitch_classes) |-> NOTE_NAMES[pitch_classes[k] + 1]]

\* The chroma is built from twelve reads of held_notes: each bit comes from
\* one of the values that held_notes had during the reads.
RECURSIVE MixedChromas(_, _)
MixedChromas(views, i) ==
    IF i > 12 THEN {<<>>}
    ELSE {<<b>> \o rest : b \in {chroma_of(v)[i] : v \in views},
                          rest \in MixedChromas(views, i + 1)}

\* find_chords_from_notes(names) of pychord, for two names or more: no chord,
\* or a chord, named here by its first note.
FoundChords(names) == IF Len(names) >= 2 THEN {None, Some(names[1])} ELSE {None}

NoLine == [chord |-> None, notes |-> <<>>, chroma |-> <<>>]

NewTimer == [st |-> "waiting", views |-> {}, chroma |-> <<>>, names |-> <<>>]

DetectorStarted ==
    [pc |-> "on", held_notes |-> {}, cb |-> "idle", timer |-> 0, threads |-> <<>>,
     stopped |-> FALSE, fresh |-> {}, last |-> NoLine]

\* Timer.cancel(): a timer that has not fired yet never will.
cancel(threads, t) ==
    IF t # 0 /\ threads[t].st = "waiting"
    THEN [threads EXCEPT ![t].st = "cancelled"]
    ELSE threads

\* No new timer while a _detect is running.
schedule_unless_detecting(d) ==
    IF \E t \in 1..Len(d.threads) : d.threads[t].st \in {"fired", "reading", "print"}
    THEN d
    ELSE [d EXCEPT !.threads = Append(cancel(d.threads, d.timer), NewTimer),
                   !.timer = Len(d.threads) + 1]

\* _schedule_detect(): under the lock, the pending timer is cancelled and a
\* new one is started in its place.
schedule_detect(d) ==
    [d EXCEPT !.threads = Append(cancel(d.threads, d.timer), NewTimer),
              !.timer = Len(d.threads) + 1]

InitDetector ==
    /\ corpus = <<>>
    /\ index = NoIndex
    /\ query = NoQuery
    /\ out = NoOut
    /\ call = NoCall
    /\ tree = NoTree
    /\ det = DetectorStarted
    /\ ws = NoServer

\* midi_callback with a note-on or a note-off, up to the change of
\* held_notes; a _detect that is reading held_notes may see either value.
NoteCallback ==
    /\ det.pc = "on" /\ det.cb = "idle" /\ ~det.stopped
    /\ Len(det.threads) < MaxEvents
    /\ \E note \in MidiNotes, on \in BOOLEAN :
         LET held == IF on THEN det.held_notes \cup {note} ELSE det.held_notes \ {note}
         IN det' = [det EXCEPT
                      !.held_notes = held,
                      !.cb = "scheduling",
                      !.fresh = {},
                      !.threads = [t \in 1..Len(det.threads) |->
                                     IF det.threads[t].st = "reading"
                                     THEN [det.threads[t] EXCEPT !.views = @ \cup {held}]
                                     ELSE det.threads[t]]]
    /\ UNCHANGED <<corpus, index, query, out, call, tree, ws>>

\* The rest of the callback: _schedule_detect().
ScheduleDetect ==
    /\ det.pc = "on" /\ det.cb = "scheduling"
    /\ det' = [schedule_detect(det) EXCEPT !.cb = "idle"]
    /\ UNCHANGED <<corpus, index, query, out, call, tree, ws>>

\* The device sends nothing more.
CallbacksStop ==
    /\ det.pc = "on" /\ det.cb = "idle" /\ ~det.stopped
    /\ det' = [det EXCEPT !.stopped = TRUE]
    /\ UNCHANGED <<corpus, index, query, out, call, tree, ws>>

\* Timer.run: the delay is over and the timer was not cancelled.
TimerFires(t) ==
    /\ det.pc = "on" /\ t \in 1..Len(det.threads)
    /\ det.threads[t].st = "waiting"
    /\ det' = [det EXCEPT !.threads[t].st = "fired"]
    /\ UNCHANGED <<corpus, index, query, out, call, tree, ws>>

\* _detect, the section under the lock: whichever timer is pending is
\* cancelled and forgotten.
DetectLocked(t) ==
    /\ det.pc = "on" /\ t \in 1..Len(det.threads)
    /\ det.threads[t].st = "fired"
    /\ det' = [det EXCEPT
                 !.threads = [cancel(det.threads, det.timer) EXCEPT
                                ![t].st = "reading", ![t].views = {det.held_notes}],
                 !.timer = 0]
    /\ UNCHANGED <<corpus, index, query, out, call, tree, ws>>

\* _detect, the reads of held_notes: chroma, then pitch_classes and names.
\* A set that changes while it is iterated may raise RuntimeError, which
\* ends the thread without a line.
DetectReads(t) ==
    /\ det.pc = "on" /\ t \in 1..Len(det.threads)
    /\ det.threads[t].st = "reading"
    /\ \/ \E chroma \in MixedChromas(det.threads[t].views, 1), v \in det.threads[t].views :
            det' = [det EXCEPT !.threads[t] =
                      [st |-> "print", views |-> {}, chroma |-> chroma, names |-> names_of(v)]]
       \/ /\ Cardinality(det.threads[t].views) > 1
          /\ det' = [det EXCEPT !.threads[t] = [NewTimer EXCEPT !.st = "raised"]]
    /\ UNCHANGED <<corpus, index, query, out, call, tree, ws>>

\* _detect, print(json.dumps({"chord": chord, "notes": names, "chroma": chroma})).
DetectPrints(t) ==
    /\ det.pc = "on" /\ t \in 1..Len(det.threads)
    /\ det.threads[t].st = "print"
    /\ \E chord \in FoundChords(det.threads[t].names) :
          det' = [det EXCEPT
                    !.threads[t] = [NewTimer EXCEPT !.st = "done"],
                    !.fresh = @ \cup {det.threads[t].chroma},
                    !.last = [chord |-> chord, notes |-> det.threads[t].names,
                              chroma |-> det.threads[t].chroma]]
    /\ UNCHANGED <<corpus, index, query, out, call, tree, ws>>

TimerThread ==
    \E t \in 1..MaxEvents : TimerFires(t) \/ DetectLocked(t) \/ DetectReads(t) \/ DetectPrints(t)

NextDetector == NoteCallback \/ ScheduleDetect \/ CallbacksStop \/ TimerThread

SpecDetector == InitDetector /\ [][NextDetector]_vars

\* Threads that can run do run: the callback goes on to _schedule_detect,
\* and a timer thread takes its next step.
SpecDetectorFair ==
    SpecDetector /\ WF_vars(ScheduleDetect) /\ WF_vars(TimerThread)

(***************************************************************************)
(* pianomidi/ws_server.py with USE_DETECTOR_SUBPROCESS: read_stdout reads  *)
(* the lines of the detector, normalises each and broadcasts it to the     *)
(* WebSocket clients.  A line is blank, not JSON, or the object            *)
(* {"chord": c, "notes": N, "chroma": X} with c null or a string.          *)
(***************************************************************************)
MaxClients == 2

BlankLine == [kind |-> "blank"]
GarbageLine == [kind |-> "garbage"]
ObjectLine(chord, notes, chroma) ==
    [kind |-> "object", chord |-> chord, notes |-> notes, chroma |-> chroma]

\* What the detector can print for the notes of the model, and the same
\* with "" for the chord.
DetectorLines ==
    {BlankLine, GarbageLine}
    \cup UNION {{ObjectLine(chord, names_of(held), chroma_of(held)) :
                    chord \in FoundChords(names_of(held)) \cup {Some(<<>>)}} :
                held \in SUBSET MidiNotes}

\* ','.join(notes)
RECURSIVE JoinComma(_)
JoinComma(notes) ==
    IF notes = <<>> THEN <<>>
    ELSE IF Len(notes) = 1 THEN notes[1]
    ELSE notes[1] \o <<",">> \o JoinComma(Tail(notes))

\* The name sent when there is nothing to show.
NoName == <<"-">>

NoMessage == [type |-> "none"]

\* read_stdout, from json.loads to msg: a chord that is a non-empty string
\* becomes chord_field and is wrapped into {name, notes: [], chroma: []};
\* otherwise chord_field is built from the top-level keys.
normalise(obj) ==
    LET named == obj.chord.some /\ obj.chord.val # <<>>
        chord_field ==
            IF named
            THEN [name |-> obj.chord, notes |-> <<>>, chroma |-> <<>>]
            ELSE [name |-> obj.chord, notes |-> obj.notes, chroma |-> obj.chroma]
        notes_val == chord_field.notes
        chroma_val == chord_field.chroma
        name_val == IF chord_field.name.some /\ chord_field.name.val # <<>>
                    THEN chord_field.name.val
                    ELSE IF notes_val # <<>> THEN JoinComma(notes_val)
                    ELSE NoName
    IN [type |-> "chord",
        chord |-> [name |-> name_val, notes |-> notes_val, chroma |-> chroma_val]]

ServerStarted ==
    [pc |-> "on", clients |-> {}, inbox |-> [c \in 1..MaxClients |-> NoMessage],
     line |-> BlankLine, sent |-> NoMessage]

InitServer ==
    /\ corpus = <<>>
    /\ index = NoIndex
    /\ query = NoQuery
    /\ out = NoOut
    /\ call = NoCall
    /\ tree = NoTree
    /\ det = NoDetector
    /\ ws = ServerStarted

\* websocket_endpoint: accept and CLIENTS.add(ws).
Connect ==
    /\ ws.pc = "on"
    /\ \E c \in (1..MaxClients) \ ws.clients :
          ws' = [ws EXCEPT !.clients = @ \cup {c}, !.inbox[c] = NoMessage]
    /\ UNCHANGED <<corpus, index, query, out, call, tree, det>>

\* websocket_endpoint: WebSocketDisconnect, CLIENTS.discard(ws).
Disconnect ==
    /\ ws.pc = "on"
    /\ \E c \in ws.clients : ws' = [ws EXCEPT !.clients = @ \ {c}]
    /\ UNCHANGED <<corpus, index, query, out, call, tree, det>>

\* One pass of the loop of read_stdout: a blank line is skipped, a line
\* that is not JSON is reported on stderr, an object is normalised and
\* broadcast; the clients whose send_text fails are dropped.
ReadStdout ==
    /\ ws.pc = "on"
    /\ \E line \in DetectorLines :
         IF line.kind # "object"
         THEN ws' = [ws EXCEPT !.line = line]
         ELSE \E dead \in SUBSET ws.clients :
                 ws' = [ws EXCEPT
                          !.line = line,
                          !.sent = normalise(line),
                          !.clients = @ \ dead,
                          !.inbox = [c \in 1..MaxClients |->
                                       IF c \in ws.clients \ dead
                                       THEN normalise(line) ELSE ws.inbox[c]]]
    /\ UNCHANGED <<corpus, index, query, out, call, tree, det>>

NextServer == Connect \/ Disconnect \/ ReadStdout

SpecServer == InitServer /\ [][NextServer]_vars

(***************************************************************************)
(* Claims on ranking (suggest_next_chords).                                *)
(***************************************************************************)
\* The sort key of row i as the ranking contract states it, from the goal of
\* the query and the tension of the row, a nan key counting as +infinity.
RankKey(i) ==
    LET t == out.tension[i]
        raw == CASE query.goal = "resolve" -> t
                 [] query.goal = "build" -> FNeg(t)
                 [] query.goal = "0.5" -> FAbsDiff(t, Num(500000))
                 [] query.goal = "nan" -> FAbsDiff(t, NaN)
    IN IF IsNaN(raw) THEN Inf ELSE raw

ResultRows == {out.results[k].row : k \in 1..Len(out.results)}

C2_ResultsAreSortedPrefix ==
    out.status = "ok" =>
        LET M == NumRows(index)
            n == Len(out.results)
        IN /\ n = (IF query.top < M THEN query.top ELSE M)
           /\ ResultRows \subseteq 1..M
           /\ Cardinality(ResultRows) = n
           /\ \A k \in 1..n :
                 /\ out.results[k].rank = k
                 /\ out.results[k].tension = out.tension[out.results[k].row]
           /\ \A k \in 1..(n - 1) :
                 ~FLess(RankKey(out.results[k + 1].row), RankKey(out.results[k].row))
           /\ \A i \in (1..M) \ ResultRows, j \in ResultRows :
                 ~FLess(RankKey(i), RankKey(j))

\* A "build" query for the 2 best of 4 rows, the two results with different
\* keys and a row with a larger, finite key left out.
C2_Witness ==
    /\ out.status = "ok"
    /\ query.goal = "build"
    /\ NumRows(index) = 4
    /\ Len(out.results) = 2
    /\ FLess(RankKey(out.results[1].row), RankKey(out.results[2].row))
    /\ \E i \in (1..4) \ ResultRows :
          /\ IsNum(RankKey(i))
          /\ FLess(RankKey(out.results[2].row), RankKey(i))

\* C3: of two ranked rows with equal sort keys, the one with the smaller
\* row index comes first.
C3_TiesByAscendingRow ==
    out.status = "ok" =>
        \A j, k \in 1..Len(out.results) :
            (j < k /\ RankKey(out.results[j].row) = RankKey(out.results[k].row))
                => out.results[j].row < out.results[k].row

\* The orderings argsort may return for goal "build" on the tensions of the
\* query (tension does not depend on the goal).
BuildOrders == argsort(NanToInf(SortKey(out.tension, "build")))

\* The ordering a stable sort returns for goal "build": ties in ascending row.
StableBuildOrder ==
    CHOOSE o \in BuildOrders :
        \A j, k \in 1..Len(o) :
            (j < k /\ out.tension[o[j]] = out.tension[o[k]]) => o[j] < o[k]

\* The last row of an ordering among the rows whose tension is not nan.
LastNonNaN(order) ==
    LET S == {k \in 1..Len(order) : ~IsNaN(out.tension[order[k]])}
    IN order[CHOOSE k \in S : \A j \in S : j <= k]

HasNonNaN == \E i \in 1..Len(out.tension) : ~IsNaN(out.tension[i])

\* The rows whose tension is the least tension that is not nan.
MinTensionRows ==
    {i \in 1..Len(out.tension) :
        /\ ~IsNaN(out.tension[i])
        /\ \A j \in 1..Len(out.tension) : ~FLess(out.tension[j], out.tension[i])}

\* C4 as stated: the rank-1 row for goal "resolve" is the last row, among
\* the rows whose tension is not nan, of the ordering for goal "build" (here
\* with both orderings breaking ties by ascending row).
C4_ResolveTopIsBuildBottom ==
    (/\ out.status = "ok"
     /\ query.goal = "resolve"
     /\ HasNonNaN
     /\ \A j, k \in 1..Len(out.order) :
           (j < k /\ RankKey(out.order[j]) = RankKey(out.order[k]))
              => out.order[j] < out.order[k])
        => out.results[1].row = LastNonNaN(StableBuildOrder)

\* C4 as amended: when some row has a tension that is not nan, the rank-1
\* row for goal "resolve" has the same tension as the last row, among the
\* rows whose tension is not nan, of every ordering for goal "build": the
\* least tension that is not nan.  The two rows are the same row when one
\* row only has that tension.
C4_ResolveTopHasTensionOfBuildBottom ==
    (out.status = "ok" /\ query.goal = "resolve" /\ HasNonNaN) =>
        \A o \in BuildOrders :
            /\ out.tension[out.results[1].row] = out.tension[LastNonNaN(o)]
            /\ out.results[1].row \in MinTensionRows
            /\ Cardinality(MinTensionRows) = 1
                  => out.results[1].row = LastNonNaN(o)

\* A "resolve" query on 4 rows whose tensions, the previous chord's apart,
\* are three different numbers.
C4_Witness ==
    /\ out.status = "ok"
    /\ query.goal = "resolve"
    /\ NumRows(index) = 4
    /\ Cardinality({out.tension[i] : i \in 1..4} \ {NaN}) = 3
    /\ Cardinality(MinTensionRows) = 1

(***************************************************************************)
(* Claims on errors (suggest_chords).                                      *)
(***************************************************************************)
QueryHasProgression == query.progression.some /\ query.progression.val # <<>>

QueryLast == query.progression.val[Len(query.progression.val)]

\* The key strings of the documented forms: a root, alone or followed by
\* "m", "maj", "min", " major", " maj", " minor" or " min".
ValidKeyStrings ==
    {r \o s : r \in PcNames,
              s \in {<<>>, <<"m">>, <<"m", "a", "j">>, <<"m", "i", "n">>,
                     <<" ", "m", "a", "j", "o", "r">>, <<" ", "m", "a", "j">>,
                     <<" ", "m", "i", "n", "o", "r">>, <<" ", "m", "i", "n">>}}

C5_NeitherGiven == ~query.chord.some /\ ~QueryHasProgression

C5_ChordUnknown == query.chord.some /\ query.chord.val \notin NamesInIndex(index)

C5_ProgressionUnknown ==
    /\ QueryHasProgression
    /\ \E j \in 1..Len(query.progression.val) :
          query.progression.val[j] \notin NamesInIndex(index)

C5_LastDiffers ==
    QueryHasProgression /\ query.chord.some /\ query.chord.val # QueryLast

C5_KeyInvalid == query.key \notin ValidKeyStrings

\* C5: a call with neither chord nor progression, with a chord or a
\* progression element that is not a name of the index, with a progression
\* whose last element differs from the chord, or with an invalid key string,
\* ends in an error and returns no results, not even some of them.
C5_ErrorsAbortTheQuery ==
    (/\ out.status # "none"
     /\ \/ C5_NeitherGiven
        \/ C5_ChordUnknown
        \/ C5_ProgressionUnknown
        \/ C5_LastDiffers
        \/ C5_KeyInvalid)
        => out.status = "error" /\ out.results = <<>>

\* A call rejected only because the chord is not the last element of the
\* progression: the two are different names of the same row.
C5_Witness ==
    /\ out.status = "error"
    /\ C5_LastDiffers
    /\ ~C5_ChordUnknown /\ ~C5_ProgressionUnknown /\ ~C5_KeyInvalid
    /\ build_name_to_row(index, query.chord.val) = build_name_to_row(index, QueryLast)

\* C6: a weights mapping with a key outside d1, d2, d3, c, m, h, or with a
\* negative weight, is rejected with an error and no result.
C6_InvalidWeightsRejected ==
    (/\ out.status # "none"
     /\ query.weights.some
     /\ \E j \in 1..Len(query.weights.val) :
           \/ query.weights.val[j][1] \notin FeatureKeys
           \/ query.weights.val[j][2] < 0)
        => out.status = "error" /\ out.results = <<>>

(***************************************************************************)
(* Claims on the indicators (compute_features, compute_tension).           *)
(***************************************************************************)
QueryWeights == IF query.weights.some THEN query.weights.val ELSE DEFAULT_WEIGHTS

NonZeroItems(weights) == SelectSeq(weights, LAMBDA item : item[2] # 0)

\* C7: an indicator of weight 0 leaves the tension of every row unchanged,
\* rows where the indicator is nan included, with and without normalize:
\* the tension is the tension computed from the other items of the weights.
C7_ZeroWeightLeavesTensionUnchanged ==
    out.status = "ok" =>
        out.tension =
            MaskPrev(compute_tension(out.feats, Some(NonZeroItems(QueryWeights)),
                                     query.normalize),
                     out.prev_row)

QueryKey == parse_key(query.key)

\* C8: d3 is 0 for a row whose TIS is the TIS of the key (the row of the 7
\* notes of the key's scale).
C8_D3ZeroOnKeyScaleRow ==
    out.status = "ok" =>
        \A i \in 1..NumRows(index) :
            index.tis[i] = key_tis(QueryKey.root, QueryKey.mode)
                => out.feats.d3[i] = Num(0)

\* The function label of row i in the key of the query.
QueryLabel(i) ==
    harmonic_function_label_from_tis(
        index.tis[i], function_prototypes(QueryKey.root, QueryKey.mode))

\* C9 as stated: h is 0 for every row when the query has no progression and
\* when its progression has exactly one chord.
C9_HZeroUpToOneChord ==
    (out.status = "ok" /\ (~QueryHasProgression \/ Len(query.progression.val) = 1))
        => \A i \in 1..NumRows(index) : out.feats.h[i] = Num(0)

\* C9 as amended: h is 0 for every row when the query has no progression
\* (none or an empty one).  When the progression has exactly one chord, the
\* candidate is appended to it and h is taken on the two chords: h is 0 for
\* the row of the previous chord and, for every other row, either 0 or the
\* row's distance d1 to the previous chord; it is d1 for a dominant after a
\* tonic and 0 for a tonic after a dominant.
C9_HOfShortProgressions ==
    out.status = "ok" =>
        /\ ~QueryHasProgression
              => \A i \in 1..NumRows(index) : out.feats.h[i] = Num(0)
        /\ (QueryHasProgression /\ Len(query.progression.val) = 1)
              => /\ out.feats.h[out.prev_row] = Num(0)
                 /\ \A i \in 1..NumRows(index) :
                       /\ out.feats.h[i] \in {Num(0), out.feats.d1[i]}
                       /\ (i # out.prev_row /\ QueryLabel(out.prev_row) = "t"
                              /\ QueryLabel(i) = "d")
                             => out.feats.h[i] = out.feats.d1[i]
                       /\ (QueryLabel(out.prev_row) = "d" /\ QueryLabel(i) = "t")
                             => out.feats.h[i] = Num(0)

\* A query with a progression of one chord, a tonic, and a dominant among
\* the candidates, at a distance from it that is not 0.
C9_Witness ==
    /\ out.status = "ok"
    /\ QueryHasProgression
    /\ Len(query.progression.val) = 1
    /\ QueryLabel(out.prev_row) = "t"
    /\ \E i \in 1..NumRows(index) :
          /\ QueryLabel(i) = "d"
          /\ out.feats.h[i] # Num(0)
          /\ out.feats.h[i] = out.feats.d1[i]

(***************************************************************************)
(* Claims on index building.                                               *)
(***************************************************************************)
CorpusMasks(corp) == {bits_to_mask(corp[i].bits) : i \in 1..Len(corp)}

\* C10: in every index build_tis_index returns, chroma_mask is strictly
\* increasing (so no two rows share a mask) and there is one row per distinct
\* mask of the corpus.
C10_MasksStrictlyIncreasing ==
    index.status = "ok" =>
        /\ \A r \in 1..(NumRows(index) - 1) :
              index.chroma_mask[r] < index.chroma_mask[r + 1]
        /\ Len(index.chroma_mask) = NumRows(index)
        /\ NumRows(index) = Cardinality(CorpusMasks(corpus))

\* An index of two rows built from three chords, two of them sharing a mask,
\* inserted with the larger mask first.
C10_Witness ==
    /\ index.status = "ok"
    /\ Len(corpus) = 3
    /\ NumRows(index) = 2
    /\ bits_to_mask(corpus[1].bits) > bits_to_mask(corpus[2].bits)

(***************************************************************************)
(* C11: every name in aliases_for_row(i) is a corpus chord whose chroma    *)
(* has the mask chroma_mask[i]; every corpus chord name is in the alias    *)
(* slice of exactly one row, and build_name_to_row maps it to that row.    *)
(***************************************************************************)
RowsHolding(name) ==
    {r \in 1..NumRows(index) : name \in Range(aliases_for_row(index, r))}

C11_AliasSlicesPartitionCorpus ==
    index.status = "ok" =>
        /\ \A r \in 1..NumRows(index) :
              \A n \in Range(aliases_for_row(index, r)) :
                 \E i \in 1..Len(corpus) :
                    /\ corpus[i].name = n
                    /\ bits_to_mask(corpus[i].bits) = index.chroma_mask[r]
        /\ \A i \in 1..Len(corpus) :
              /\ Cardinality(RowsHolding(corpus[i].name)) = 1
              /\ build_name_to_row(index, corpus[i].name) \in RowsHolding(corpus[i].name)

(***************************************************************************)
(* C12: reps_for_row(i) holds at most one name per root pitch class, the   *)
(* enharmonic spellings of one pitch class (A# and Bb) counted as one.     *)
(***************************************************************************)
RootPitchClass(name) == PC_TO_IDX(chord_root(name))

C12_OneRepPerRootPitchClass ==
    index.status = "ok" =>
        \A r \in 1..NumRows(index) :
           LET reps == reps_for_row(index, r) IN
           \A j, k \in 1..Len(reps) :
              (j < k /\ chord_root(reps[j]) # <<>> /\ chord_root(reps[k]) # <<>>)
                 => RootPitchClass(reps[j]) # RootPitchClass(reps[k])

(***************************************************************************)
(* C13: choose_representatives_by_root returns exactly one name per root   *)
(* that occurs among the names: the shortest name of that root without '/' *)
(* (ties broken lexicographically), or the shortest slashed name when      *)
(* every name of that root has a '/'.                                      *)
(***************************************************************************)
RootsOf(names) == {chord_root(n) : n \in Range(names)} \ {<<>>}

NamesOfRoot(names, root) == {n \in Range(names) : chord_root(n) = root}

IsShortestOf(x, pool) ==
    /\ x \in pool
    /\ \A o \in pool :
          \/ Len(x) < Len(o)
          \/ Len(x) = Len(o) /\ (x = o \/ StrLess(x, o))

C13_OneShortestNamePerRoot ==
    call.fn = "choose_representatives_by_root" =>
        LET names == call.arg
            reps == call.ret.val
        IN /\ ~call.ret.raised
           /\ Len(reps) = Cardinality(RootsOf(names))
           /\ \A root \in RootsOf(names) :
                 LET group == NamesOfRoot(names, root)
                     plain == {n \in group : ~HasSlash(n)}
                     at == {j \in 1..Len(reps) : chord_root(reps[j]) = root}
                 IN /\ Cardinality(at) = 1
                    /\ \A j \in at :
                          IsShortestOf(reps[j], IF plain # {} THEN plain ELSE group)

\* Three names of two roots: one root with slashed names only, the other
\* with a plain name that is longer than its slashed one.
C13_Witness ==
    /\ call.fn = "choose_representatives_by_root"
    /\ Len(call.arg) = 3
    /\ <<"C", "/", "G">> \in Range(call.arg)
    /\ call.ret.val = <<<<"A", "m", "a", "j", "7">>, <<"C", "/", "E">>>>

(***************************************************************************)
(* C14: rep_names[row] is the least of the row's per-root representatives  *)
(* under the key (1 if the name has '/' else 0, length, name), and the     *)
(* index does not depend on the insertion order of the corpus mapping.     *)
(***************************************************************************)
PrefKeyLess(a, b) ==
    LET sa == IF HasSlash(a) THEN 1 ELSE 0
        sb == IF HasSlash(b) THEN 1 ELSE 0
    IN \/ sa < sb
       \/ sa = sb /\ Len(a) < Len(b)
       \/ sa = sb /\ Len(a) = Len(b) /\ StrLess(a, b)

Reorderings(corp) ==
    {[i \in 1..Len(corp) |-> corp[f[i]]] :
        f \in {g \in [1..Len(corp) -> 1..Len(corp)] :
                  \A i, j \in 1..Len(corp) : i # j => g[i] # g[j]}}

RepIsLeastOfRowReps ==
    \A r \in 1..NumRows(index) :
       LET reps == Range(reps_for_row(index, r)) IN
       /\ index.rep_names[r] \in reps
       /\ \A o \in reps : o = index.rep_names[r] \/ PrefKeyLess(index.rep_names[r], o)

C14_RepIsLeastAndOrderFree ==
    index.status = "ok" =>
        /\ RepIsLeastOfRowReps
        /\ \A other \in Reorderings(corpus) : build_tis_index(other) = index

(***************************************************************************)
(* C15: filter_slash_suggestions(names) returns exactly the names without  *)
(* '/' in their input order when there is one; otherwise a one-element     *)
(* list holding the shortest name (ties broken lexicographically), or, as  *)
(* the amended claim adds, the empty list when names is empty.  The output *)
(* is always a sub-list of the input.                                      *)
(***************************************************************************)
PlainPositions(names) == {i \in 1..Len(names) : ~HasSlash(names[i])}

NthOf(P, j) == CHOOSE i \in P : Cardinality({k \in P : k < i}) = j - 1

IsPlainNamesInOrder(ret, names) ==
    /\ Len(ret) = Cardinality(PlainPositions(names))
    /\ \A j \in 1..Len(ret) : ret[j] = names[NthOf(PlainPositions(names), j)]

IsSubList(sub, full) ==
    \E f \in [1..Len(sub) -> 1..Len(full)] :
        /\ \A i, j \in 1..Len(sub) : i < j => f[i] < f[j]
        /\ \A i \in 1..Len(sub) : sub[i] = full[f[i]]

IsOneShortest(ret, names) == Len(ret) = 1 /\ IsShortestOf(ret[1], Range(names))

\* The claim as stated: a one-element list whenever no name is plain.
C15_PlainNamesOrOneShortest ==
    call.fn = "filter_slash_suggestions" =>
        LET names == call.arg
            ret == call.ret.val
        IN /\ ~call.ret.raised
           /\ IsSubList(ret, names)
           /\ IF PlainPositions(names) # {}
              THEN IsPlainNamesInOrder(ret, names)
              ELSE IsOneShortest(ret, names)

\* The amended claim: the empty input gives the empty list.
C15_PlainNamesOrOneShortestOrEmpty ==
    call.fn = "filter_slash_suggestions" =>
        LET names == call.arg
            ret == call.ret.val
        IN /\ ~call.ret.raised
           /\ IsSubList(ret, names)
           /\ IF PlainPositions(names) # {}
              THEN IsPlainNamesInOrder(ret, names)
              ELSE IF names # <<>> THEN IsOneShortest(ret, names)
              ELSE ret = <<>>

\* Slashed names only, and the shortest of them is not the first.
C15_Witness ==
    /\ call.fn = "filter_slash_suggestions"
    /\ Len(call.arg) >= 2
    /\ PlainPositions(call.arg) = {}
    /\ Len(call.ret.val) = 1
    /\ call.ret.val[1] # call.arg[1]

(***************************************************************************)
(* C16: mask_to_bits(bits_to_mask(b)) = b for every 0/1 vector b of length *)
(* 12, bits_to_mask(mask_to_bits(m)) = m for every m in [0, 4096), and bit *)
(* i of the vector (bit 0 = C) is bit i of the mask.                       *)
(***************************************************************************)
BitOfMask(mask, i) == (mask \div Pow2(i)) % 2

SameBits(bits, mask) == \A i \in 0..(CHROMA_LEN - 1) : bits[i + 1] = BitOfMask(mask, i)

C16_BitsMaskRoundTrips ==
    /\ (call.fn = "bits_to_mask" /\ call.arg \in [1..CHROMA_LEN -> {0, 1}]) =>
          /\ ~call.ret.raised
          /\ call.ret.val \in 0..(Pow2(CHROMA_LEN) - 1)
          /\ SameBits(call.arg, call.ret.val)
          /\ mask_to_bits(call.ret.val) = call.arg
    /\ (call.fn = "mask_to_bits" /\ call.arg \in 0..(Pow2(CHROMA_LEN) - 1)) =>
          /\ ~call.ret.raised
          /\ call.ret.val \in [1..CHROMA_LEN -> {0, 1}]
          /\ SameBits(call.ret.val, call.arg)
          /\ bits_to_mask(call.ret.val) = call.arg

\* The C major triad: pitch classes 0, 4 and 7 give the mask 1 + 16 + 128.
C16_Witness ==
    /\ call.fn = "mask_to_bits"
    /\ call.arg = 145
    /\ call.ret.val = BitsC

(***************************************************************************)
(* C17: parse_key either raises or returns (root, mode) with root one of   *)
(* the valid root spellings and mode "major" or "minor"; a two-word string *)
(* whose first word is no valid root ("H major", "c minor") is rejected.   *)
(***************************************************************************)
C17_ParseKeyReturnsValidRoot ==
    (call.fn = "parse_key" /\ ~call.ret.raised) =>
        /\ call.ret.val[1] \in PcNames
        /\ call.ret.val[2] \in {"major", "minor"}

(***************************************************************************)
(* C18: building an index from a corpus in which some chord has an invalid *)
(* chroma (length other than 12, a value other than 0/1, or twelve zeros)  *)
(* aborts the build with an error whose message names an offending chord.  *)
(***************************************************************************)
InvalidChroma(bits) ==
    \/ Len(bits) # CHROMA_LEN
    \/ \E i \in 1..Len(bits) : bits[i] \notin {0, 1}
    \/ \A i \in 1..Len(bits) : bits[i] = 0

OffendingChords == {corpus[i].name : i \in {j \in 1..Len(corpus) : InvalidChroma(corpus[j].bits)}}

C18_BuildErrorNamesTheChord ==
    (index.status # "none" /\ OffendingChords # {}) =>
        /\ index.status = "error"
        /\ \E name \in OffendingChords : name \in Range(index.error_names)

QueryLeavesIndex == index' = index

C20_QueriesLeaveTheIndexUnchanged == [][QueryLeavesIndex]_vars

\* A query on the built index has returned a ranking of two rows.
C20_Witness ==
    /\ out.status = "ok"
    /\ Len(out.results) >= 2
    /\ index = build_tis_index(corpus)

(***************************************************************************)
(* C21: each merge of the rule loop applies the first of the rules         *)
(* (1) SR DR -> DR, (2) DR TR -> TR, (3) TR DR -> TR that has a match, at  *)
(* its leftmost match; the new node has the right child's head under rules *)
(* 1 and 2 and the left child's head under rule 3; the loop is left only   *)
(* when one node remains or no rule has a match.                           *)
(***************************************************************************)
RuleLeft(k) == CASE k = 1 -> "SR" [] k = 2 -> "DR" [] k = 3 -> "TR"
RuleRight(k) == CASE k = 1 -> "DR" [] k = 2 -> "TR" [] k = 3 -> "DR"
RuleResult(k) == CASE k = 1 -> "DR" [] k = 2 -> "TR" [] k = 3 -> "TR"

RuleMatches(nodes, k, i) ==
    nodes[i].kind = RuleLeft(k) /\ nodes[i + 1].kind = RuleRight(k)

RuleHasMatch(nodes, k) == \E i \in 1..(Len(nodes) - 1) : RuleMatches(nodes, k, i)

Replaced(nodes, i, new) ==
    SubSeq(nodes, 1, i - 1) \o <<new>> \o SubSeq(nodes, i + 2, Len(nodes))

IsFirstRuleLeftmostMerge(old, new) ==
    \E k \in 1..3 : \E i \in 1..(Len(old) - 1) :
        /\ RuleMatches(old, k, i)
        /\ \A k2 \in 1..(k - 1) : ~RuleHasMatch(old, k2)
        /\ \A j \in 1..(i - 1) : ~RuleMatches(old, k, j)
        /\ new = Replaced(old, i,
                    [kind |-> RuleResult(k), start |-> old[i].start,
                     end |-> old[i + 1].end,
                     head_pos |-> IF k = 3 THEN old[i].head_pos ELSE old[i + 1].head_pos])

RuleLoopStepIsRight ==
    tree.pc = "rules" =>
        /\ tree'.pc = "rules" =>
              \/ tree' = tree
              \/ IsFirstRuleLeftmostMerge(tree.st.nodes, tree'.st.nodes)
        /\ tree'.pc = "root" =>
              \/ Len(tree.st.nodes) <= 1
              \/ \A k \in 1..3 : ~RuleHasMatch(tree.st.nodes, k)
        /\ tree'.pc \in {"rules", "root"}

C21_RulesInOrderLeftmostFirst == [][RuleLoopStepIsRight]_vars

\* t s d: rule 1 merges s d into DR, then rule 3 merges TR DR into a TR node
\* that has the head of its left child.
C21_Witness ==
    /\ tree.pc = "rules"
    /\ tree.func_labels = <<"t", "s", "d">>
    /\ tree.merges = 2
    /\ tree.st.nodes = <<[kind |-> "TR", start |-> 1, end |-> 4, head_pos |-> 1]>>

(***************************************************************************)
(* C22: when no rule applies and more than one node remains, the first two *)
(* remaining nodes are combined into a ROOT node whose head is the head of *)
(* the child whose head leaf comes first in the order t, s, d of function  *)
(* labels, ties broken by the lower d2 of the head leaf; this is repeated  *)
(* until one root remains.                                                 *)
(***************************************************************************)
LabelRank(f) == CASE f = "t" -> 1 [] f = "s" -> 2 [] f = "d" -> 3

\* Leaf x is to be preferred to leaf y as a head.
HeadBeats(x, y) ==
    \/ LabelRank(tree.func_labels[x]) < LabelRank(tree.func_labels[y])
    \/ /\ LabelRank(tree.func_labels[x]) = LabelRank(tree.func_labels[y])
       /\ tree.key_distances[x].v < tree.key_distances[y].v

IsRootMerge(old, new) ==
    LET a == old[1]
        b == old[2]
        root == new[1]
    IN /\ Len(new) = Len(old) - 1
       /\ SubSeq(new, 2, Len(new)) = SubSeq(old, 3, Len(old))
       /\ root.kind = "ROOT" /\ root.start = a.start /\ root.end = b.end
       /\ root.head_pos \in {a.head_pos, b.head_pos}
       /\ HeadBeats(a.head_pos, b.head_pos) => root.head_pos = a.head_pos
       /\ HeadBeats(b.head_pos, a.head_pos) => root.head_pos = b.head_pos

RootLoopStepIsRight ==
    tree.pc = "root" =>
        /\ Len(tree.st.nodes) > 1 =>
              /\ \A k \in 1..3 : ~RuleHasMatch(tree.st.nodes, k)
              /\ tree' = tree \/ (tree'.pc = "root" /\ IsRootMerge(tree.st.nodes, tree'.st.nodes))
        /\ tree'.pc # "root" => Len(tree.st.nodes) = 1

C22_RootNodesTakeTheStableHead == [][RootLoopStepIsRight]_vars

\* s s with the second chord closer to the key: the ROOT takes the second.
C22_Witness ==
    /\ tree.pc = "root"
    /\ tree.func_labels = <<"s", "s">>
    /\ tree.key_distances[2].v < tree.key_distances[1].v
    /\ tree.st.nodes = <<[kind |-> "ROOT", start |-> 1, end |-> 3, head_pos |-> 2]>>

(***************************************************************************)
(* C27: for every label sequence over {t, s, d} of length n >= 2 the tree  *)
(* construction terminates, after exactly n - 1 merges, with a single root *)
(* that spans all of [0, n) (leaves 1..n here, end exclusive).             *)
(***************************************************************************)
TreeBuilding == tree.pc = "rules" /\ Len(tree.func_labels) >= 2

TreeBuilt ==
    /\ tree.pc \in {"walk", "done"}
    /\ tree.merges = Len(tree.func_labels) - 1
    /\ Len(tree.st.nodes) = 1
    /\ tree.st.nodes[1].start = 1
    /\ tree.st.nodes[1].end = Len(tree.func_labels) + 1

C27_TreeTerminatesAfterNMinus1Merges == TreeBuilding ~> TreeBuilt

C27_Witness ==
    /\ tree.pc = "done"
    /\ Len(tree.func_labels) = MaxLabels
    /\ tree.merges = MaxLabels - 1
    /\ Len(tree.st.nodes) = 1
    /\ tree.st.nodes[1].kind = "ROOT"
    /\ tree.st.nodes[1].end = MaxLabels + 1

(***************************************************************************)
(* C28: the list H of parent heads never contains the last leaf n - 1      *)
(* (leaf n here) and never contains the same leaf index twice.             *)
(***************************************************************************)
C28_ParentHeadsExcludeLastAndRepeat ==
    tree.pc \in {"walk", "done"} =>
        LET H == tree.parent_heads IN
        /\ \A i \in 1..Len(H) : H[i] # Len(tree.func_labels)
        /\ \A i, j \in 1..Len(H) : i # j => H[i] # H[j]

\* A walk that skipped the last leaf and a repeated head and kept two heads.
C28_Witness ==
    /\ tree.pc = "done"
    /\ Len(tree.parent_heads) >= 2
    /\ Len(tree.st.chain) > Len(tree.parent_heads)

(***************************************************************************)
(* Claims on voice_leading_tension.                                        *)
(***************************************************************************)
VoiceCall == call.fn = "voice_leading_tension"
VoiceA == chroma_to_pc_list(call.arg[1])
VoiceB == chroma_to_pc_list(call.arg[2])
VoiceCost == cost_matrix(VoiceA, VoiceB)

\* The values that the call with the arguments swapped can return, in the
\* same environment.
SwappedValues == {run[3] : run \in VoiceLeadingRuns(call.arg[2], call.arg[1], call.scipy)}

(***************************************************************************)
(* C23: for non-empty chromas A and B of equal size                        *)
(* voice_leading_tension(A, B) = voice_leading_tension(B, A), also when    *)
(* more than one assignment has the least cost; for chromas of different   *)
(* sizes both values are finite and <= 0.                                  *)
(***************************************************************************)
C23_VoiceLeadingSymmetric ==
    (VoiceCall /\ VoiceA # <<>> /\ VoiceB # <<>>) =>
        IF Len(VoiceA) = Len(VoiceB)
        THEN SwappedValues = {call.ret.val}
        ELSE call.ret.val \in Int /\ call.ret.val <= 0 /\ \A v \in SwappedValues : v \in Int /\ v <= 0

\* Caug to Daug: every note can move up or down a whole tone, so two
\* assignments have the least cost.
C23_Witness ==
    /\ VoiceCall
    /\ call.arg = <<BitsOfPcs({0, 4, 8}), BitsOfPcs({2, 6, 10})>>
    /\ VoiceCost[1][1] + VoiceCost[2][2] + VoiceCost[3][3] = SumSeq(call.chosen)
    /\ VoiceCost[1][3] + VoiceCost[2][1] + VoiceCost[3][2] = SumSeq(call.chosen)
    /\ call.ret.val = 0 - 3 * ExpTable(VoiceCost[1][1])

(***************************************************************************)
(* C24: each fallback solver (permutations for n <= 8, cheapest cell first *)
(* for n > 8) selects a perfect assignment whose total cost is the least   *)
(* total cost of all perfect assignments of the n x n cost matrix.         *)
(***************************************************************************)
IsPerfectAssignment(cells, n) ==
    /\ Len(cells) = n
    /\ {c[1] : c \in Range(cells)} = 1..n
    /\ {c[2] : c \in Range(cells)} = 1..n

C24_FallbackAssignmentIsMinimal ==
    (VoiceCall /\ ~call.scipy /\ VoiceA # <<>> /\ VoiceB # <<>>) =>
        /\ IsPerfectAssignment(call.cells, Len(VoiceCost))
        /\ SumSeq(call.chosen) = linear_sum_assignment(VoiceCost, Len(VoiceCost)).total

(***************************************************************************)
(* C25: voice_leading_tension(A, A) = -|A| for every non-empty chroma A:   *)
(* all n chosen costs are 0 and the stability sum is |A| * exp(0).         *)
(***************************************************************************)
C25_SameChordGivesMinusSize ==
    (VoiceCall /\ call.arg[1] = call.arg[2] /\ VoiceA # <<>>) =>
        /\ \A k \in 1..Len(call.chosen) : call.chosen[k] = 0
        /\ Len(call.chosen) = Len(VoiceA)
        /\ call.ret.val = 0 - Len(VoiceA) * ExpTable(0)

\* Nine notes, with the solver for n > 8.
C25_Witness ==
    /\ VoiceCall /\ ~call.scipy
    /\ call.arg = <<BitsOfPcs(0..8), BitsOfPcs(0..8)>>
    /\ call.ret.val = 0 - 9 * ExpTable(0)

(***************************************************************************)
(* C26: TISIndex.from_npz returns the canonical form for both older        *)
(* archive shapes.  From flat rows with n names: rep_offsets =             *)
(* alias_offsets = [0, 1, ..., n] and reps_for_row(i) = aliases_for_row(i) *)
(* = [names[i]].  From a deduplicated archive without rep_offsets or       *)
(* without rep_names_by_root: reps_for_row(i) = [rep_names[i]] for every   *)
(* row, the aliases as stored.                                             *)
(***************************************************************************)
Loaded == call.fn = "from_npz"

IsFlatRows(z) == "rep_names" \notin DOMAIN z

IsEarlyDeduped(z) ==
    /\ "rep_names" \in DOMAIN z
    /\ "rep_offsets" \notin DOMAIN z \/ "rep_names_by_root" \notin DOMAIN z

C26_OlderArchivesLoadCanonically ==
    Loaded =>
        LET z == call.arg IN
        /\ IsFlatRows(z) =>
              /\ index.rep_offsets = [i \in 1..(Len(z["names"]) + 1) |-> i - 1]
              /\ index.alias_offsets = index.rep_offsets
              /\ NumRows(index) = Len(z["names"])
              /\ \A i \in 1..Len(z["names"]) :
                    /\ reps_for_row(index, i) = <<z["names"][i]>>
                    /\ aliases_for_row(index, i) = <<z["names"][i]>>
        /\ IsEarlyDeduped(z) =>
              /\ NumRows(index) = Len(z["rep_names"])
              /\ \A i \in 1..Len(z["rep_names"]) :
                    reps_for_row(index, i) = <<z["rep_names"][i]>>
              /\ index.alias_offsets = z["alias_offsets"]
              /\ index.alias_names = z["alias_names"]

\* An archive that lacks rep_offsets only and stores two representatives
\* (Am7 and C6) for one of its two rows.
C26_Witness ==
    /\ Loaded
    /\ DOMAIN call.arg = (DOMAIN to_npz(NoIndex)) \ {"rep_offsets"}
    /\ Len(call.arg["rep_names"]) = 2
    /\ Len(call.arg["rep_names_by_root"]) = 3
    /\ index.rep_names_by_root = index.rep_names

(***************************************************************************)
(* C29: in the MIDI ChordDetector, for any interleaving of note callbacks, *)
(* timer firings and _detect runs (an old timer's _detect cancelling a     *)
(* newer pending timer included), once the callbacks stop a JSON line is   *)
(* eventually emitted whose chroma has bit i set exactly when some note of *)
(* the final held_notes is congruent to i mod 12: no final change of       *)
(* held_notes is left unreported.                                          *)
(***************************************************************************)
CallbacksStopped == det.pc = "on" /\ det.stopped /\ Len(det.threads) > 0

\* A line printed since the last change of held_notes carries its chroma.
FinalReported ==
    \E chroma \in det.fresh :
        \A i \in 0..11 : (chroma[i + 1] = 1) <=> (\E n \in det.held_notes : n % 12 = i)

C29_FinalHeldNotesAreReported == CallbacksStopped ~> FinalReported

\* The first timer fired before the second note-on, and its _detect
\* cancelled the second timer and printed both notes.
C29_Witness ==
    /\ CallbacksStopped /\ FinalReported
    /\ det.held_notes = {60, 64}
    /\ Len(det.threads) = 2
    /\ det.threads[1].st = "done"
    /\ det.threads[2].st = "cancelled"

(***************************************************************************)
(* C30: for every line of the detector that is a JSON object               *)
(* {"chord": c, "notes": N, "chroma": X}, with c a chord name or null, the *)
(* server broadcasts {"type": "chord", "chord": {name, notes, chroma}}     *)
(* whose notes equal N and whose chroma equals X.                          *)
(***************************************************************************)
C30_BroadcastKeepsNotesAndChroma ==
    (ws.pc = "on" /\ ws.line.kind = "object") =>
        /\ ws.sent.type = "chord"
        /\ DOMAIN ws.sent.chord = {"name", "notes", "chroma"}
        /\ ws.sent.chord.notes = ws.line.notes
        /\ ws.sent.chord.chroma = ws.line.chroma

=============================================================================
